---- MODULE Spec2Model ----
(***************************************************************************)
(* Model of the pongo challenge solver (internal/parser/js_engine.go) and  *)
(* of the extraction pipeline (internal/core/core.go).                     *)
(*                                                                         *)
(* Go strings are modelled as sequences of one-character strings.          *)
(***************************************************************************)
EXTENDS Integers, Sequences, FiniteSets, TLC

VARIABLES
    entry,           \* the function the caller invoked
    pc,              \* position reached inside that call
    x1Value,         \* nonce argument
    difficultyValue, \* difficulty prefix argument
    href,            \* locationHref argument of calculateJs1Key
    anim,            \* animated argument of calculateJs1Key
    counter,         \* calculatePow: loop counter
    hashEvals,       \* calculatePow: calculateHashStart calls made so far
    powValue,        \* calculatePow: returned int
    powErr,          \* calculatePow: returned error
    js1key,          \* value returned by calculateJs1Key
    keys,            \* GenerateKey: returned *Keys
    err,             \* GenerateKey: returned error
    page,            \* ParseIPInfo: the page handed in, as its node tree
    document,        \* ParseIPInfo: doc, the parsed document
    title,           \* ParseIPInfo: title
    scriptValues,    \* ParseIPInfo: scriptValues
    ipInfo,          \* ParseIPInfo: ipInfo
    result,          \* ParseIPInfo: returned *IPInfo
    parseErr,        \* ParseIPInfo: returned error
    jsonText,        \* MarshalJSON, ToJSON: the serialization last returned
    validateErr,     \* Validate: the error last returned
    globals,         \* server: the package variables of constants and client
    jars,            \* server: the cookie jars created so far
    reqs,            \* server: the /query requests and their handlers' locals
    extractRegexCache,  \* core: the map of compiled patterns
    regexCacheMutex,    \* core: the sync.RWMutex guarding the map
    routines,           \* getOrCompileRegex: the calling goroutines and their locals
    compiled,           \* getOrCompileRegex: regexp.MustCompile calls made, per pattern
    inserted            \* getOrCompileRegex: map inserts made, per pattern

solverVars == <<entry, pc, x1Value, difficultyValue, href, anim, counter,
                hashEvals, powValue, powErr, js1key, keys, err>>

\* what a call of the solver leaves alone in the solver's own state
solverData == <<x1Value, difficultyValue, href, anim, counter, hashEvals,
                powValue, powErr, js1key, keys, err>>

parserVars == <<page, document, title, scriptValues, ipInfo, result, parseErr,
                jsonText, validateErr>>

serverVars == <<globals, jars, reqs>>

regexVars == <<extractRegexCache, regexCacheMutex, routines, compiled, inserted>>

vars == <<solverVars, parserVars, serverVars, regexVars>>

\* no goroutine uses the pattern cache
RegexUnused ==
    /\ extractRegexCache = <<>>
    /\ regexCacheMutex = <<>>
    /\ routines = <<>>
    /\ compiled = <<>>
    /\ inserted = <<>>

\* the nil error
Nil == "nil"

\* a pointer is a sequence of at most one element; the nil pointer is empty
NilPtr == <<>>

Ptr(v) == <<v>>

Deref(p) == p[1]

----------------------------------------------------------------------------
(* Characters and strings *)

DigitChars == <<"0", "1", "2", "3", "4", "5", "6", "7", "8", "9">>

LowerHexChars == DigitChars \o <<"a", "b", "c", "d", "e", "f">>

UpperHexChars == <<"A", "B", "C", "D", "E", "F">>

OtherChars == <<"g", "z", "+", "-", "h", "t", "p", "s", ":", "/", "i", "n", ".", "G">>

Alphabet == LowerHexChars \o UpperHexChars \o OtherChars

CharCode == [c \in {Alphabet[i] : i \in DOMAIN Alphabet} |->
                CHOOSE i \in DOMAIN Alphabet : Alphabet[i] = c]

Str(n, c) == [i \in 1..n |-> c]

\* fmt.Sprintf("%d", n)
RECURSIVE Decimal(_)
Decimal(n) ==
    IF n < 0 THEN <<"-">> \o Decimal(-n)
    ELSE IF n < 10 THEN <<DigitChars[n + 1]>>
    ELSE Decimal(n \div 10) \o <<DigitChars[(n % 10) + 1]>>

----------------------------------------------------------------------------
(* calculateHashStart *)

DigestLen == 64

\* crypto/sha256 is a library digest.  It is modelled by a fixed mixing
\* function of the same shape: any byte string to a digest of DigestLen
\* lowercase hexadecimal characters.
RECURSIVE Absorb(_, _)
Absorb(input, s) ==
    IF input = <<>> THEN s
    ELSE Absorb(Tail(input), (s * 131 + CharCode[Head(input)] + 7) % 1048573)

DigestDigit(s, i) ==
    LET q == (i - 1) \div 5
        r == (i - 1) % 5
    IN  ((s \div (16 ^ r)) + q * (1 + (s % 15))) % 16

Sha256Hex(input) ==
    LET s == Absorb(input, 434334)
    IN  [i \in 1..DigestLen |-> LowerHexChars[DigestDigit(s, i) + 1]]

calculateHashStart(input, length) ==
    LET hashHex == Sha256Hex(input)
        n == IF length > Len(hashHex) THEN Len(hashHex) ELSE length
    IN  SubSeq(hashHex, 1, n)

----------------------------------------------------------------------------
(* Integer helpers of the key derivation *)

RECURSIVE XorNat(_, _)
XorNat(a, b) ==
    IF a = 0 THEN b
    ELSE IF b = 0 THEN a
    ELSE ((a + b) % 2) + 2 * XorNat(a \div 2, b \div 2)

\* Go's ^ on two's-complement ints: ~x = -x-1
Xor(a, b) ==
    IF a >= 0 /\ b >= 0 THEN XorNat(a, b)
    ELSE IF a < 0 /\ b < 0 THEN XorNat(-a - 1, -b - 1)
    ELSE IF a < 0 THEN -XorNat(-a - 1, b) - 1
    ELSE -XorNat(a, -b - 1) - 1

\* 0xFFFFFF + 1
TwoTo24 == 16777216

MaskNone(n) == n

\* n & 0xFFFFFF
Mask(n) == n % TwoTo24

HexDigitVal(c) ==
    IF \E i \in DOMAIN LowerHexChars : LowerHexChars[i] = c
    THEN (CHOOSE i \in DOMAIN LowerHexChars : LowerHexChars[i] = c) - 1
    ELSE IF \E i \in DOMAIN UpperHexChars : UpperHexChars[i] = c
    THEN (CHOOSE i \in DOMAIN UpperHexChars : UpperHexChars[i] = c) + 9
    ELSE -1

RECURSIVE HexValue(_, _)
HexValue(digits, acc) ==
    IF digits = <<>> THEN acc
    ELSE HexValue(Tail(digits), acc * 16 + HexDigitVal(Head(digits)))

\* hexVal, _ := strconv.ParseInt(s, 16, 64): the error is dropped, and the
\* value returned with a syntax error is 0
ParseInt16(s) ==
    LET signed == s # <<>> /\ Head(s) \in {"+", "-"}
        digits == IF signed THEN Tail(s) ELSE s
        ok     == digits # <<>> /\ \A i \in DOMAIN digits : HexDigitVal(digits[i]) >= 0
    IN  IF ~ok THEN 0
        ELSE IF signed /\ Head(s) = "-" THEN -HexValue(digits, 0)
        ELSE HexValue(digits, 0)

obf(n) ==
    LET n1  == n + 4566
        n2  == Xor(n1, 2258)
        n3  == Xor(n2, 7675)
        n4  == Xor(n3, 7668)
        n5  == n4 + 4032
        n6  == n5 - 7637
        n7  == n6 - 6257
        n8  == n7 - 7159
        n9  == Xor(n8, 8417)
        n10 == n9 + 4296
        n11 == Xor(n10, 42851)
    IN  n11

----------------------------------------------------------------------------
(* calculateJs1Key.  Each chunk is the list of its statements in source   *)
(* order, <<condition, operation, operand>>, the source line at the right; *)
(* a statement outside any `if` has condition TRUE.                        *)

\* a statement that also looks at the value computed so far
TakenByValue(ins, js) == ins[1] /\ js % 2 = 0

\* the `if` around a statement: whether the statement is executed
Taken(ins, js) == ins[1]

\* one statement applied to js1key
Step(ins, js) ==
    IF ~Taken(ins, js) THEN js
    ELSE CASE ins[2] = "setHex" -> Mask(ins[3] + 12)
           [] ins[2] = "addHex" -> js + ins[3] + 12
           [] ins[2] = "mask"   -> Mask(js)
           [] ins[2] = "add"    -> Mask(js + ins[3])
           [] ins[2] = "sub"    -> Mask(js - ins[3])
           [] ins[2] = "xor"    -> Mask(Xor(js, ins[3]))
           [] ins[2] = "xorRaw" -> Xor(js, ins[3])

\* the statements from position st.i on, applied to st.k
RECURSIVE Exec(_, _)
Exec(stmts, st) ==
    IF st.i > Len(stmts) THEN st.k
    ELSE Exec(stmts, [i |-> st.i + 1, k |-> Step(stmts[st.i], st.k)])

Run(stmts, js) == Exec(stmts, [i |-> 1, k |-> js])

\* js_engine.go lines 98-172
Chunk1(x1, locationHref, animated) ==
    LET hexVal == ParseInt16(SubSeq(x1, 1, 4))
    IN  <<
        <<TRUE, "setHex", hexVal>>,                                      \* 100
        <<obf(46441) + obf(35365) < obf(28159), "sub", 1608>>,           \* 103
        <<animated, "xorRaw", 53400>>,                                   \* 107
        <<TRUE, "xor", 3084>>,                                           \* 111
        <<TRUE, "sub", 6341>>,                                           \* 112
        <<animated, "add", 90994>>,                                      \* 114
        <<TRUE, "add", 3769>>,                                           \* 118
        <<TRUE, "sub", 8999>>,                                           \* 119
        <<TRUE, "add", 6920>>,                                           \* 122
        <<animated, "add", 78439>>,                                      \* 123
        <<TRUE, "add", 1264>>,                                           \* 126
        <<animated, "xorRaw", 39852>>,                                   \* 128
        <<TRUE, "xorRaw", 7249>>,                                        \* 131
        <<TRUE, "sub", 3808>>,                                           \* 132
        <<TRUE, "add", 2625>>,                                           \* 133
        <<TRUE, "add", 9192>>,                                           \* 134
        <<Len(x1) + obf(56907) < obf(57347), "sub", 3116>>,              \* 137
        <<TRUE, "xorRaw", 8580>>,                                        \* 141
        <<TRUE, "sub", 5467>>,                                           \* 142
        <<animated, "xorRaw", 24814>>,                                   \* 144
        <<TRUE, "xorRaw", 7636>>,                                        \* 148
        <<TRUE, "mask", 0>>,                                             \* 149
        <<Len(x1) + obf(56910) < obf(57268), "add", 6090>>,              \* 152
        <<Len(x1) + obf(63126) > obf(57338), "sub", 4085>>,              \* 156
        <<animated, "sub", 85694>>,                                      \* 160
        <<TRUE, "sub", 3211>>,                                           \* 164
        <<TRUE, "add", 6561>>,                                           \* 165
        <<animated, "sub", 64921>>,                                      \* 167
        <<TRUE, "sub", 3687>>,                                           \* 171
        <<TRUE, "add", 6366>>                                            \* 172
    >>

\* js_engine.go lines 175-238
Chunk2(x1, locationHref, animated) ==
    LET hexVal == ParseInt16(SubSeq(x1, 5, 8))
    IN  <<
        <<TRUE, "addHex", hexVal>>,                                      \* 177
        <<TRUE, "mask", 0>>,                                             \* 178
        <<animated, "sub", 23486>>,                                      \* 180
        <<TRUE, "sub", 1608>>,                                           \* 184
        <<TRUE, "xor", 3084>>,                                           \* 185
        <<TRUE, "sub", 6341>>,                                           \* 186
        <<obf(35569) + obf(47549) < obf(25553), "add", 3769>>,           \* 188
        <<TRUE, "sub", 8999>>,                                           \* 192
        <<obf(56917) + Len(locationHref) > obf(56913), "add", 6920>>,    \* 194
        <<animated, "add", 70398>>,                                      \* 198
        <<TRUE, "add", 1264>>,                                           \* 202
        <<TRUE, "xor", 7249>>,                                           \* 203
        <<obf(56912) + Len(locationHref) > obf(56914), "sub", 3808>>,    \* 205
        <<TRUE, "add", 2625>>,                                           \* 209
        <<TRUE, "add", 9192>>,                                           \* 210
        <<TRUE, "sub", 3116>>,                                           \* 211
        <<TRUE, "xor", 8580>>,                                           \* 212
        <<animated, "sub", 58679>>,                                      \* 214
        <<TRUE, "sub", 5467>>,                                           \* 218
        <<Len(x1) + obf(58748) > obf(57264), "xor", 7636>>,              \* 220
        <<TRUE, "add", 6090>>,                                           \* 224
        <<obf(56972) + Len(locationHref) > obf(56911), "sub", 4085>>,    \* 226
        <<TRUE, "sub", 3211>>,                                           \* 230
        <<TRUE, "add", 6561>>,                                           \* 231
        <<obf(56911) + Len(locationHref) > obf(56912), "sub", 3687>>,    \* 233
        <<TRUE, "add", 6366>>                                            \* 237
    >>

\* js_engine.go lines 241-307
Chunk3(x1, locationHref, animated) ==
    LET hexVal == ParseInt16(SubSeq(x1, 9, 12))
    IN  <<
        <<TRUE, "addHex", hexVal>>,                                      \* 243
        <<TRUE, "mask", 0>>,                                             \* 244
        <<animated, "sub", 33986>>,                                      \* 246
        <<TRUE, "sub", 1608>>,                                           \* 250
        <<animated, "xor", 16876>>,                                      \* 252
        <<TRUE, "xor", 3084>>,                                           \* 256
        <<TRUE, "sub", 6341>>,                                           \* 257
        <<TRUE, "add", 3769>>,                                           \* 258
        <<Len(x1) + obf(56911) < obf(56926), "sub", 8999>>,              \* 260
        <<obf(35250) + obf(58115) < obf(24814), "add", 6920>>,           \* 264
        <<TRUE, "add", 1264>>,                                           \* 268
        <<TRUE, "xor", 7249>>,                                           \* 269
        <<animated, "sub", 19308>>,                                      \* 271
        <<TRUE, "sub", 3808>>,                                           \* 275
        <<TRUE, "add", 2625>>,                                           \* 276
        <<TRUE, "add", 9192>>,                                           \* 277
        <<TRUE, "sub", 3116>>,                                           \* 278
        <<obf(56972) + Len(locationHref) > obf(56912), "xor", 8580>>,    \* 280
        <<animated, "sub", 29698>>,                                      \* 284
        <<TRUE, "sub", 5467>>,                                           \* 288
        <<TRUE, "xor", 7636>>,                                           \* 289
        <<obf(58053) + obf(32799) < obf(72110), "add", 6090>>,           \* 291
        <<TRUE, "sub", 4085>>,                                           \* 295
        <<obf(56913) + Len(locationHref) > obf(56911), "sub", 3211>>,    \* 297
        <<obf(45344) + obf(44944) < obf(24687), "add", 6561>>,           \* 301
        <<TRUE, "sub", 3687>>,                                           \* 305
        <<TRUE, "add", 6366>>                                            \* 306
    >>

\* js_engine.go lines 310-365
Chunk4(x1, locationHref, animated) ==
    LET hexVal == ParseInt16(SubSeq(x1, 13, 16))
    IN  <<
        <<TRUE, "addHex", hexVal>>,                                      \* 312
        <<TRUE, "mask", 0>>,                                             \* 313
        <<TRUE, "sub", 1608>>,                                           \* 314
        <<obf(47787) + obf(58712) < obf(69976), "xor", 3084>>,           \* 316
        <<animated, "sub", 69093>>,                                      \* 320
        <<TRUE, "sub", 6341>>,                                           \* 324
        <<TRUE, "add", 3769>>,                                           \* 325
        <<TRUE, "sub", 8999>>,                                           \* 326
        <<obf(56972) + Len(locationHref) > obf(56972), "add", 6920>>,    \* 328
        <<animated, "add", 65053>>,                                      \* 332
        <<TRUE, "add", 1264>>,                                           \* 336
        <<TRUE, "xor", 7249>>,                                           \* 337
        <<TRUE, "sub", 3808>>,                                           \* 338
        <<animated, "add", 91021>>,                                      \* 340
        <<TRUE, "add", 2625>>,                                           \* 344
        <<animated, "add", 51460>>,                                      \* 346
        <<TRUE, "add", 9192>>,                                           \* 350
        <<TRUE, "sub", 3116>>,                                           \* 351
        <<TRUE, "xor", 8580>>,                                           \* 352
        <<TRUE, "sub", 5467>>,                                           \* 353
        <<TRUE, "xor", 7636>>,                                           \* 354
        <<TRUE, "add", 6090>>,                                           \* 355
        <<Len(x1) + obf(57982) > obf(57364), "sub", 4085>>,              \* 357
        <<TRUE, "sub", 3211>>,                                           \* 361
        <<TRUE, "add", 6561>>,                                           \* 362
        <<TRUE, "sub", 3687>>,                                           \* 363
        <<TRUE, "add", 6366>>                                            \* 364
    >>

\* js_engine.go lines 368-443
Chunk5(x1, locationHref, animated) ==
    LET hexVal == ParseInt16(SubSeq(x1, 17, 20))
    IN  <<
        <<TRUE, "addHex", hexVal>>,                                      \* 370
        <<TRUE, "mask", 0>>,                                             \* 371
        <<obf(58011) + obf(60648) < obf(24265), "sub", 1608>>,           \* 373
        <<TRUE, "xor", 3084>>,                                           \* 377
        <<TRUE, "sub", 6341>>,                                           \* 378
        <<obf(48375) + obf(51432) < obf(15265), "add", 3769>>,           \* 380
        <<animated, "sub", 99151>>,                                      \* 384
        <<TRUE, "sub", 8999>>,                                           \* 388
        <<Len(x1) + obf(56907) < obf(57336), "add", 6920>>,              \* 390
        <<TRUE, "add", 1264>>,                                           \* 394
        <<TRUE, "xor", 7249>>,                                           \* 395
        <<animated, "sub", 21490>>,                                      \* 397
        <<TRUE, "sub", 3808>>,                                           \* 401
        <<TRUE, "add", 2625>>,                                           \* 402
        <<TRUE, "add", 9192>>,                                           \* 403
        <<Len(x1) + obf(56972) < obf(57344), "sub", 3116>>,              \* 405
        <<Len(x1) + obf(56972) < obf(57264), "xor", 8580>>,              \* 409
        <<obf(44918) + obf(45865) < obf(25134), "sub", 5467>>,           \* 413
        <<Len(x1) + obf(48463) > obf(56892), "xor", 7636>>,              \* 417
        <<TRUE, "add", 6090>>,                                           \* 421
        <<animated, "sub", 43662>>,                                      \* 423
        <<TRUE, "sub", 4085>>,                                           \* 427
        <<animated, "sub", 40853>>,                                      \* 429
        <<TRUE, "sub", 3211>>,                                           \* 433
        <<TRUE, "add", 6561>>,                                           \* 434
        <<obf(58656) + obf(36353) < obf(15184), "sub", 3687>>,           \* 436
        <<obf(58323) + obf(63494) < obf(70537), "add", 6366>>            \* 440
    >>

\* js_engine.go lines 446-518
Chunk6(x1, locationHref, animated) ==
    LET hexVal == ParseInt16(SubSeq(x1, 21, 24))
    IN  <<
        <<TRUE, "addHex", hexVal>>,                                      \* 448
        <<TRUE, "mask", 0>>,                                             \* 449
        <<animated, "sub", 69932>>,                                      \* 451
        <<TRUE, "sub", 1608>>,                                           \* 455
        <<animated, "xor", 51824>>,                                      \* 457
        <<TRUE, "xor", 3084>>,                                           \* 461
        <<TRUE, "sub", 6341>>,                                           \* 462
        <<animated, "add", 44364>>,                                      \* 464
        <<TRUE, "add", 3769>>,                                           \* 468
        <<Len(x1) + obf(35762) > obf(56936), "sub", 8999>>,              \* 470
        <<animated, "add", 45930>>,                                      \* 474
        <<TRUE, "add", 6920>>,                                           \* 478
        <<TRUE, "add", 1264>>,                                           \* 479
        <<Len(x1) + obf(45131) > obf(57326), "xor", 7249>>,              \* 481
        <<animated, "sub", 21919>>,                                      \* 485
        <<TRUE, "sub", 3808>>,                                           \* 489
        <<TRUE, "add", 2625>>,                                           \* 490
        <<Len(x1) + obf(45629) > obf(57358), "add", 9192>>,              \* 492
        <<TRUE, "sub", 3116>>,                                           \* 496
        <<TRUE, "xor", 8580>>,                                           \* 497
        <<TRUE, "sub", 5467>>,                                           \* 498
        <<obf(56914) + Len(locationHref) > obf(56913), "xor", 7636>>,    \* 500
        <<TRUE, "add", 6090>>,                                           \* 504
        <<TRUE, "sub", 4085>>,                                           \* 505
        <<TRUE, "sub", 3211>>,                                           \* 506
        <<TRUE, "add", 6561>>,                                           \* 507
        <<Len(x1) + obf(36030) > obf(56902), "sub", 3687>>,              \* 509
        <<animated, "add", 69043>>,                                      \* 513
        <<TRUE, "add", 6366>>                                            \* 517
    >>

\* js_engine.go lines 521-588
Chunk7(x1, locationHref, animated) ==
    LET hexVal == ParseInt16(SubSeq(x1, 25, 28))
    IN  <<
        <<TRUE, "addHex", hexVal>>,                                      \* 523
        <<TRUE, "mask", 0>>,                                             \* 524
        <<Len(x1) + obf(57832) > obf(57332), "sub", 1608>>,              \* 526
        <<obf(48352) + obf(45592) < obf(17965), "xor", 3084>>,           \* 530
        <<TRUE, "sub", 6341>>,                                           \* 534
        <<obf(56913) + Len(locationHref) > obf(56972), "add", 3769>>,    \* 536
        <<TRUE, "sub", 8999>>,                                           \* 540
        <<Len(x1) + obf(56914) < obf(56935), "add", 6920>>,              \* 542
        <<obf(34892) + obf(48570) < obf(28130), "add", 1264>>,           \* 546
        <<animated, "xor", 87291>>,                                      \* 550
        <<TRUE, "xor", 7249>>,                                           \* 554
        <<obf(60069) + obf(59777) < obf(27136), "sub", 3808>>,           \* 556
        <<TRUE, "add", 2625>>,                                           \* 560
        <<animated, "add", 86379>>,                                      \* 562
        <<TRUE, "add", 9192>>,                                           \* 566
        <<TRUE, "sub", 3116>>,                                           \* 567
        <<TRUE, "xor", 8580>>,                                           \* 568
        <<Len(x1) + obf(46288) > obf(57344), "sub", 5467>>,              \* 570
        <<TRUE, "xor", 7636>>,                                           \* 574
        <<TRUE, "add", 6090>>,                                           \* 575
        <<TRUE, "sub", 4085>>,                                           \* 576
        <<obf(35609) + obf(32327) < obf(25583), "sub", 3211>>,           \* 578
        <<TRUE, "add", 6561>>,                                           \* 582
        <<TRUE, "sub", 3687>>,                                           \* 583
        <<obf(56910) + Len(locationHref) > obf(56972), "add", 6366>>     \* 585
    >>

\* js_engine.go lines 591-647
Chunk8(x1, locationHref, animated) ==
    LET hexVal == ParseInt16(SubSeq(x1, 29, 32))
    IN  <<
        <<TRUE, "addHex", hexVal>>,                                      \* 593
        <<TRUE, "mask", 0>>,                                             \* 594
        <<TRUE, "sub", 1608>>,                                           \* 595
        <<TRUE, "xor", 3084>>,                                           \* 596
        <<animated, "sub", 89270>>,                                      \* 598
        <<TRUE, "sub", 6341>>,                                           \* 602
        <<TRUE, "add", 3769>>,                                           \* 603
        <<obf(56913) + Len(locationHref) > obf(56913), "sub", 8999>>,    \* 605
        <<TRUE, "add", 6920>>,                                           \* 609
        <<TRUE, "add", 1264>>,                                           \* 610
        <<TRUE, "xor", 7249>>,                                           \* 611
        <<animated, "sub", 51206>>,                                      \* 613
        <<TRUE, "sub", 3808>>,                                           \* 617
        <<TRUE, "add", 2625>>,                                           \* 618
        <<animated, "add", 39367>>,                                      \* 620
        <<TRUE, "add", 9192>>,                                           \* 624
        <<obf(46156) + obf(45907) < obf(13117), "sub", 3116>>,           \* 626
        <<obf(56913) + Len(locationHref) > obf(56911), "xor", 8580>>,    \* 630
        <<TRUE, "sub", 5467>>,                                           \* 634
        <<animated, "xor", 25650>>,                                      \* 636
        <<TRUE, "xor", 7636>>,                                           \* 640
        <<TRUE, "add", 6090>>,                                           \* 641
        <<TRUE, "sub", 4085>>,                                           \* 642
        <<TRUE, "sub", 3211>>,                                           \* 643
        <<TRUE, "add", 6561>>,                                           \* 644
        <<TRUE, "sub", 3687>>,                                           \* 645
        <<TRUE, "add", 6366>>                                            \* 646
    >>

\* js_engine.go lines 97-650: the chunks run in order, innermost first; a
\* chunk whose `if len(x1) >= n` guard fails contributes no statement
calculateJs1Key(x1, locationHref, animated) ==
    Run(IF Len(x1) >= 32 THEN Chunk8(x1, locationHref, animated) ELSE <<>>,
    Run(IF Len(x1) >= 28 THEN Chunk7(x1, locationHref, animated) ELSE <<>>,
    Run(IF Len(x1) >= 24 THEN Chunk6(x1, locationHref, animated) ELSE <<>>,
    Run(IF Len(x1) >= 20 THEN Chunk5(x1, locationHref, animated) ELSE <<>>,
    Run(IF Len(x1) >= 16 THEN Chunk4(x1, locationHref, animated) ELSE <<>>,
    Run(IF Len(x1) >= 12 THEN Chunk3(x1, locationHref, animated) ELSE <<>>,
    Run(IF Len(x1) >= 8 THEN Chunk2(x1, locationHref, animated) ELSE <<>>,
    Run(Chunk1(x1, locationHref, animated), 0))))))))

\* the operation a statement performs: add, subtract or xor of a constant;
\* the chunk of x1 that "setHex" and "addHex" add is data, not a constant
Operation(ins) ==
    IF ins[2] \in {"setHex", "addHex"} THEN <<ins[2]>> ELSE <<ins[2], ins[3]>>

\* Exec, also listing the operations of the statements executed
RECURSIVE Executed(_, _)
Executed(stmts, st) ==
    IF st.i > Len(stmts) THEN [k |-> st.k, ops |-> st.ops]
    ELSE Executed(stmts,
            [i |-> st.i + 1, k |-> Step(stmts[st.i], st.k),
             ops |-> IF Taken(stmts[st.i], st.k)
                     THEN Append(st.ops, Operation(stmts[st.i]))
                     ELSE st.ops])

Trace(stmts, before) == Executed(stmts, [i |-> 1, k |-> before.k, ops |-> before.ops])

\* the operations one call of calculateJs1Key performs, in order
Operations(x1, locationHref, animated) ==
    Trace(IF Len(x1) >= 32 THEN Chunk8(x1, locationHref, animated) ELSE <<>>,
    Trace(IF Len(x1) >= 28 THEN Chunk7(x1, locationHref, animated) ELSE <<>>,
    Trace(IF Len(x1) >= 24 THEN Chunk6(x1, locationHref, animated) ELSE <<>>,
    Trace(IF Len(x1) >= 20 THEN Chunk5(x1, locationHref, animated) ELSE <<>>,
    Trace(IF Len(x1) >= 16 THEN Chunk4(x1, locationHref, animated) ELSE <<>>,
    Trace(IF Len(x1) >= 12 THEN Chunk3(x1, locationHref, animated) ELSE <<>>,
    Trace(IF Len(x1) >= 8 THEN Chunk2(x1, locationHref, animated) ELSE <<>>,
    Trace(Chunk1(x1, locationHref, animated), [k |-> 0, ops |-> <<>>])))))))).ops

----------------------------------------------------------------------------
(* calculatePow: one action per loop iteration *)

PowLimit == 100000

\* counter := 0
InitialCounter == 0

PowMatchLengthOnly(hash, difficulty) == Len(hash) = Len(difficulty)

\* if hash == difficulty
PowMatch(hash, difficulty) == hash = difficulty

PowExceededLate(c) == c > PowLimit + 1

\* if counter > 100000
PowExceeded(c) == c > PowLimit

PowInput(x1, c) == x1 \o Decimal(c)

PowReturn(value, e) ==
    /\ powValue' = value
    /\ powErr' = e
    /\ pc' = IF entry = "GenerateKey" THEN "powReturned" ELSE "done"

calculatePowEnter ==
    /\ entry = "calculatePow"
    /\ pc = "start"
    /\ counter' = InitialCounter
    /\ pc' = "pow"
    /\ UNCHANGED <<entry, x1Value, difficultyValue, href, anim, hashEvals,
                   powValue, powErr, js1key, keys, err>>
    /\ UNCHANGED <<parserVars, serverVars, regexVars>>

PowIterate ==
    /\ pc = "pow"
    /\ LET input == PowInput(x1Value, counter)
           hash  == calculateHashStart(input, Len(difficultyValue))
       IN  /\ hashEvals' = hashEvals + 1
           /\ IF PowMatch(hash, difficultyValue)
              THEN /\ PowReturn(counter, Nil)
                   /\ counter' = counter
              ELSE /\ counter' = counter + 1
                   /\ IF PowExceeded(counter + 1)
                      THEN PowReturn(0, "NotFound")
                      ELSE /\ pc' = "pow"
                           /\ UNCHANGED <<powValue, powErr>>
    /\ UNCHANGED <<entry, x1Value, difficultyValue, href, anim, js1key, keys, err>>
    /\ UNCHANGED <<parserVars, serverVars, regexVars>>

----------------------------------------------------------------------------
(* GenerateKey *)

BaseURL == <<"h", "t", "t", "p", "s", ":", "/", "/", "p", "i", "n", "g", "0", ".", "c", "c">>

NonceLen == 32

AnimatedOn == TRUE

\* animated := false
Animated == FALSE

NonceShapeHex(x1) ==
    /\ Len(x1) = NonceLen
    /\ \A i \in DOMAIN x1 : HexDigitVal(x1[i]) >= 0

\* if len(x1Value) != 32
NonceShapeOK(x1) == Len(x1) = NonceLen

GenerateKeyBegin ==
    /\ entry = "GenerateKey"
    /\ pc = "start"
    /\ IF ~NonceShapeOK(x1Value)
       THEN /\ keys' = NilPtr
            /\ err' = "InvalidInput"
            /\ pc' = "done"
            /\ UNCHANGED <<js1key, counter>>
       ELSE /\ js1key' = calculateJs1Key(x1Value, BaseURL, Animated)
            /\ counter' = InitialCounter
            /\ pc' = "pow"
            /\ UNCHANGED <<keys, err>>
    /\ UNCHANGED <<entry, x1Value, difficultyValue, href, anim, hashEvals,
                   powValue, powErr>>
    /\ UNCHANGED <<parserVars, serverVars, regexVars>>

GenerateKeyFinish ==
    /\ entry = "GenerateKey"
    /\ pc = "powReturned"
    /\ IF powErr # Nil
       THEN /\ keys' = NilPtr
            /\ err' = powErr
       ELSE /\ keys' = Ptr([Js1key |-> Decimal(js1key), Pow |-> Decimal(powValue)])
            /\ err' = Nil
    /\ pc' = "done"
    /\ UNCHANGED <<entry, x1Value, difficultyValue, href, anim, counter,
                   hashEvals, powValue, powErr, js1key>>
    /\ UNCHANGED <<parserVars, serverVars, regexVars>>

\* a direct call of calculateJs1Key
Js1KeyCall ==
    /\ entry = "calculateJs1Key"
    /\ pc = "start"
    /\ js1key' = calculateJs1Key(x1Value, href, anim)
    /\ pc' = "done"
    /\ UNCHANGED <<entry, x1Value, difficultyValue, href, anim, counter,
                   hashEvals, powValue, powErr, keys, err>>
    /\ UNCHANGED <<parserVars, serverVars, regexVars>>

----------------------------------------------------------------------------
(* Inputs *)

GoldenNonce == 
    <<"3", "e", "f", "1", "2", "4", "9", "6", "7", "4", "1", "4", "1", "2", "a", "b">>
    \o <<"8", "0", "7", "c", "6", "0", "c", "3", "4", "6", "d", "e", "d", "5", "e", "7">>

ShortNonce == <<"a", "b">>

MaxPrefixLen == 2

MaxTarget == 1

MaxHrefExtra == 1

ChunkShapes == {<<"0", "0", "0", "0">>, <<"f", "f", "f", "f">>,
                <<"-", "f", "f", "f">>, <<"z", "z", "z", "z">>,
                <<"A", "b", "C", "d">>}

Repeat8(c) == c \o c \o c \o c \o c \o c \o c \o c

Nonces32 == {GoldenNonce} \cup {Repeat8(c) : c \in ChunkShapes}
              \cup {SubSeq(GoldenNonce, 1, 31) \o <<"g">>}

BadLengthNonces == {<<>>, ShortNonce, SubSeq(GoldenNonce, 1, 31),
                    GoldenNonce \o <<"0">>}

Hrefs == {SubSeq(BaseURL, 1, n) : n \in 0..Len(BaseURL)}
           \cup {BaseURL \o Str(n, "/") : n \in 1..MaxHrefExtra}

\* prefixes that some counter up to MaxTarget reaches
ShortDifficulties(x1) ==
    {calculateHashStart(PowInput(x1, t), n) : t \in 0..MaxTarget, n \in 0..MaxPrefixLen}

\* s with its hexadecimal letters written in upper case, and in lower case
ToUpper(s) ==
    [i \in DOMAIN s |->
        IF HexDigitVal(s[i]) >= 10 THEN UpperHexChars[HexDigitVal(s[i]) - 9] ELSE s[i]]

ToLower(s) ==
    [i \in DOMAIN s |->
        IF HexDigitVal(s[i]) >= 10 THEN LowerHexChars[HexDigitVal(s[i]) + 1] ELSE s[i]]

\* the longest prefix of the last target, written in upper case when it has
\* a letter
UpperCaseDifficulties(x1) ==
    {ToUpper(calculateHashStart(PowInput(x1, MaxTarget), MaxPrefixLen))}
        \ ShortDifficulties(x1)

\* the default difficulty: the first 3 characters of the nonce
DefaultDifficulty(x1) == IF Len(x1) >= 3 THEN {SubSeq(x1, 1, 3)} ELSE {}

\* prefixes no digest starts with: a non-hexadecimal character, and more
\* characters than a digest has
NonHexDifficulty == <<"g">>

OverlongDifficulty == Str(DigestLen + 1, "0")

\* prefixes taken from the digests of the last counter tried and of the
\* first counter not tried
CeilingDifficulties(x1) ==
    {calculateHashStart(PowInput(x1, PowLimit), 5),
     calculateHashStart(PowInput(x1, PowLimit + 1), 5)}

Init ==
    /\ entry \in {"calculatePow", "GenerateKey", "calculateJs1Key"}
    /\ pc = "start"
    /\ \/ /\ entry = "calculatePow"
          /\ x1Value \in {GoldenNonce, <<>>, ShortNonce}
          /\ difficultyValue \in
                ShortDifficulties(x1Value) \cup DefaultDifficulty(x1Value)
                \cup (IF x1Value = ShortNonce
                      THEN {OverlongDifficulty} \cup CeilingDifficulties(x1Value)
                      ELSE {})
                \cup (IF x1Value = GoldenNonce
                      THEN UpperCaseDifficulties(x1Value)
                      ELSE {})
          /\ href = <<>>
          /\ anim = FALSE
       \/ /\ entry = "GenerateKey"
          /\ x1Value \in Nonces32 \cup BadLengthNonces
          /\ difficultyValue \in
                ShortDifficulties(x1Value)
                \cup (IF x1Value = GoldenNonce
                      THEN DefaultDifficulty(x1Value) \cup {NonHexDifficulty}
                      ELSE {})
          /\ href = <<>>
          /\ anim = FALSE
       \/ /\ entry = "calculateJs1Key"
          /\ x1Value \in Nonces32
          /\ difficultyValue = <<>>
          /\ href \in Hrefs
          /\ anim \in BOOLEAN
    /\ counter = 0
    /\ hashEvals = 0
    /\ powValue = 0
    /\ powErr = Nil
    /\ js1key = 0
    /\ keys = NilPtr
    /\ err = Nil
    /\ page = <<>>
    /\ document = <<>>
    /\ title = <<>>
    /\ scriptValues = <<>>
    /\ ipInfo = NilPtr
    /\ result = NilPtr
    /\ parseErr = NilPtr
    /\ jsonText = <<>>
    /\ validateErr = NilPtr
    /\ globals = <<>>
    /\ jars = <<>>
    /\ reqs = <<>>
    /\ RegexUnused

Next ==
    \/ calculatePowEnter
    \/ PowIterate
    \/ GenerateKeyBegin
    \/ GenerateKeyFinish
    \/ Js1KeyCall

Spec == Init /\ [][Next]_vars

----------------------------------------------------------------------------
(* Properties of the challenge solver *)

\* the digest of x1 + decimal(c) starts with prefix
DigestHasPrefix(x1, c, prefix) ==
    LET digest == Sha256Hex(PowInput(x1, c))
    IN  /\ Len(prefix) <= Len(digest)
        /\ \A i \in DOMAIN prefix : digest[i] = prefix[i]

\* calculatePow has run and returned
PowReturned == hashEvals > 0 /\ pc \in {"powReturned", "done"}

\* no digest starts with d
Unmatchable(d) ==
    \/ Len(d) > DigestLen
    \/ \E i \in DOMAIN d : \A j \in DOMAIN LowerHexChars : LowerHexChars[j] # d[i]

\* C1: a counter returned without error has a digest that starts with the
\* prefix, no smaller counter has one, and the empty prefix yields 0.
C1_SmallestCounter ==
    /\ (PowReturned /\ powErr = Nil) =>
          /\ DigestHasPrefix(x1Value, powValue, difficultyValue)
          /\ \A k \in 0..(powValue - 1) : ~DigestHasPrefix(x1Value, k, difficultyValue)
    /\ (PowReturned /\ difficultyValue = <<>>) => (powErr = Nil /\ powValue = 0)

C1_Witness ==
    /\ PowReturned
    /\ powErr = Nil
    /\ powValue >= 1
    /\ Len(difficultyValue) >= 1

\* C2: calculatePow fails with NotFound whenever no counter below 100000
\* matches, and never returns a counter of 100000 or more.
C2_CeilingClaim ==
    PowReturned =>
        /\ powErr = Nil => powValue < 100000
        /\ (\A c \in 0..99999 : ~DigestHasPrefix(x1Value, c, difficultyValue))
              => powErr = "NotFound"

\* C3: calculatePow terminates: every step taken inside the loop makes one
\* hash evaluation and either returns or advances the counter, a call never
\* makes more than PowLimit + 1 hash evaluations, and a call with a prefix
\* that no digest starts with returns NotFound.
C3_PowTerminates ==
    /\ [](hashEvals <= PowLimit + 1)
    /\ []((PowReturned /\ Unmatchable(difficultyValue)) => powErr = "NotFound")
    /\ [][pc = "pow" =>
            /\ hashEvals' = hashEvals + 1
            /\ pc' # "pow" \/ counter' = counter + 1]_vars

C3_Witness ==
    /\ pc = "done"
    /\ Unmatchable(difficultyValue)
    /\ powErr = "NotFound"
    /\ hashEvals = PowLimit + 1

\* C4: for a 32-character nonce, either value of animated and any
\* locationHref, calculateJs1Key returns an integer in [0, 2^24).
C4_KeyRange ==
    (entry = "calculateJs1Key" /\ pc = "done" /\ Len(x1Value) = NonceLen)
        => (js1key >= 0 /\ js1key < TwoTo24)

C4_Witness ==
    /\ entry = "calculateJs1Key"
    /\ pc = "done"
    /\ Len(x1Value) = NonceLen
    /\ anim
    /\ href # BaseURL
    /\ js1key > TwoTo24 - 65536

\* C5: GenerateKey returns InvalidInput and no credentials for every nonce
\* that is not exactly 32 hexadecimal characters.
C5_InvalidNonceRejected ==
    (entry = "GenerateKey" /\ pc = "done" /\ ~NonceShapeHex(x1Value))
        => (err = "InvalidInput" /\ keys = NilPtr)

\* C6: for a valid nonce GenerateKey succeeds exactly when calculatePow
\* does; on success Js1key and Pow are the decimal strings of
\* calculateJs1Key(nonce, BaseURL, false) and of the counter, on failure
\* there are no credentials.
C6_KeysFromBoth ==
    (entry = "GenerateKey" /\ pc = "done" /\ NonceShapeHex(x1Value)) =>
        /\ err = Nil <=> powErr = Nil
        /\ err = Nil =>
              /\ keys # NilPtr
              /\ Deref(keys).Js1key = Decimal(calculateJs1Key(x1Value, BaseURL, FALSE))
              /\ Deref(keys).Pow = Decimal(powValue)
              /\ DigestHasPrefix(x1Value, powValue, difficultyValue)
        /\ err # Nil => keys = NilPtr

C6_Witness ==
    /\ entry = "GenerateKey"
    /\ pc = "done"
    /\ NonceShapeHex(x1Value)
    /\ err = Nil
    /\ keys # NilPtr
    /\ powValue >= 1

\* the key the README's verbose output shows for GoldenNonce
GoldenKey == 310424

\* C18: for the nonce 3ef12496741412ab807c60c346ded5e7, locationHref
\* https://ping0.cc and animated = false, calculateJs1Key returns 310424.
C18_GoldenVector ==
    (entry = "calculateJs1Key" /\ pc = "done" /\ x1Value = GoldenNonce
        /\ href = BaseURL /\ ~anim)
        => js1key = GoldenKey

----------------------------------------------------------------------------
(***************************************************************************)
(* Go string functions used by the extraction pipeline.  Positions are     *)
(* 1-based; Index gives 0 where strings.Index gives -1.  A character       *)
(* outside ASCII is written by its code point: "u2014" is the em dash.     *)
(***************************************************************************)
\* regexp \s
WhiteSpace == {" ", "\t", "\n"}
\* unicode.IsSpace, as strings.TrimSpace uses it: \s and U+00A0, U+3000
UnicodeSpace == WhiteSpace \cup {"u00a0", "u3000"}

HasPrefixAt(s, sub, i) ==
    /\ i + Len(sub) - 1 <= Len(s)
    /\ SubSeq(s, i, i + Len(sub) - 1) = sub

Index(s, sub) ==
    LET hits == {i \in 1..(Len(s) + 1) : HasPrefixAt(s, sub, i)}
    IN  IF hits = {} THEN 0 ELSE CHOOSE i \in hits : \A j \in hits : i <= j

Contains(s, sub) == Index(s, sub) # 0

TrimSpace(s) ==
    LET keep == {i \in DOMAIN s : s[i] \notin UnicodeSpace}
    IN  IF keep = {} THEN <<>>
        ELSE SubSeq(s, CHOOSE i \in keep : \A j \in keep : i <= j,
                       CHOOSE i \in keep : \A j \in keep : i >= j)

\* strings.Split with a non-empty separator
RECURSIVE Split(_, _)
Split(s, sep) ==
    LET i == Index(s, sep)
    IN  IF i = 0 THEN <<s>>
        ELSE <<SubSeq(s, 1, i - 1)>> \o Split(SubSeq(s, i + Len(sep), Len(s)), sep)

\* strings.ReplaceAll / strings.Replace(.., -1) with a non-empty old
RECURSIVE ReplaceAll(_, _, _)
ReplaceAll(s, old, new) ==
    LET i == Index(s, old)
    IN  IF i = 0 THEN s
        ELSE SubSeq(s, 1, i - 1) \o new
             \o ReplaceAll(SubSeq(s, i + Len(old), Len(s)), old, new)

TrimSuffix(s, suffix) ==
    IF Len(s) >= Len(suffix) /\ HasPrefixAt(s, suffix, Len(s) - Len(suffix) + 1)
    THEN SubSeq(s, 1, Len(s) - Len(suffix)) ELSE s

RECURSIVE Join(_, _)
Join(parts, sep) ==
    IF parts = <<>> THEN <<>>
    ELSE IF Len(parts) = 1 THEN parts[1]
    ELSE parts[1] \o sep \o Join(Tail(parts), sep)

\* the number of leading characters of s that are in the set cs
RECURSIVE Span(_, _)
Span(s, cs) == IF s # <<>> /\ Head(s) \in cs THEN 1 + Span(Tail(s), cs) ELSE 0

\* the number of leading characters of s that are not in the set cs
RECURSIVE SpanNot(_, _)
SpanNot(s, cs) == IF s # <<>> /\ Head(s) \notin cs THEN 1 + SpanNot(Tail(s), cs) ELSE 0

Drop(s, n) == SubSeq(s, n + 1, Len(s))

\* regexp `\s+` replaced by one space
RECURSIVE CollapseSpace(_)
CollapseSpace(s) ==
    IF s = <<>> THEN <<>>
    ELSE IF Head(s) \in WhiteSpace
         THEN <<" ">> \o CollapseSpace(Drop(s, Span(s, WhiteSpace)))
         ELSE <<Head(s)>> \o CollapseSpace(Tail(s))

\* regexp `<[^>]*>` replaced by one space
RECURSIVE StripTags(_)
StripTags(s) ==
    IF s = <<>> THEN <<>>
    ELSE LET n == SpanNot(Tail(s), {">"})
         IN  IF Head(s) = "<" /\ n + 1 < Len(s)
             THEN <<" ">> \o StripTags(Drop(s, n + 2))
             ELSE <<Head(s)>> \o StripTags(Tail(s))

\* regexp `{{[^}]*}}` removed
RECURSIVE StripTemplates(_)
StripTemplates(s) ==
    IF s = <<>> THEN <<>>
    ELSE LET n == SpanNot(Drop(s, 2), {"}"})
         IN  IF HasPrefixAt(s, <<"{", "{">>, 1)
                /\ HasPrefixAt(s, <<"}", "}">>, n + 3)
             THEN StripTemplates(Drop(s, n + 4))
             ELSE <<Head(s)>> \o StripTemplates(Tail(s))

----------------------------------------------------------------------------
(***************************************************************************)
(* HTML entities.  html.UnescapeString and the escaping of text done by    *)
(* the renderer behind Selection.Html() are library code; they are         *)
(* modelled on the entities that occur in the pages below.                 *)
(***************************************************************************)
\* <<entity, character>>; an entity is tried before its prefixes
Entities == <<
    <<<<"&", "a", "m", "p", ";">>, "&">>, <<<<"&", "l", "t", ";">>, "<">>, <<<<"&", "g", "t", ";">>, ">">>,
    <<<<"&", "q", "u", "o", "t", ";">>, "\"">>, <<<<"&", "#", "3", "4", ";">>, "\"">>, <<<<"&", "#", "3", "9", ";">>, "'">>,
    <<<<"&", "m", "d", "a", "s", "h", ";">>, "u2014">>, <<<<"&", "#", "8", "2", "1", "2", ";">>, "u2014">>, <<<<"&", "n", "b", "s", "p", ";">>, "u00a0">>,
    <<<<"&", "a", "m", "p">>, "&">>, <<<<"&", "l", "t">>, "<">>, <<<<"&", "g", "t">>, ">">> >>

\* the characters the renderer escapes in a text node
Escapes == <<
    <<"&", <<"&", "a", "m", "p", ";">>>>, <<"<", <<"&", "l", "t", ";">>>>, <<">", <<"&", "g", "t", ";">>>>,
    <<"\"", <<"&", "#", "3", "4", ";">>>>, <<"'", <<"&", "#", "3", "9", ";">>>> >>

EntityAt(s) ==
    LET hits == {i \in DOMAIN Entities : HasPrefixAt(s, Entities[i][1], 1)}
    IN  IF hits = {} THEN 0 ELSE CHOOSE i \in hits : \A j \in hits : i <= j

RECURSIVE UnescapeString(_)
UnescapeString(s) ==
    IF s = <<>> THEN <<>>
    ELSE LET e == EntityAt(s)
         IN  IF e # 0
             THEN <<Entities[e][2]>> \o UnescapeString(Drop(s, Len(Entities[e][1])))
             ELSE <<Head(s)>> \o UnescapeString(Tail(s))

RECURSIVE EscapeString(_)
EscapeString(s) ==
    IF s = <<>> THEN <<>>
    ELSE LET hits == {i \in DOMAIN Escapes : Escapes[i][1] = Head(s)}
         IN  (IF hits = {} THEN <<Head(s)>> ELSE Escapes[CHOOSE i \in hits : TRUE][2])
             \o EscapeString(Tail(s))

EmDash == <<"u2014">>

decodeHTMLEntities(text) ==
    ReplaceAll(ReplaceAll(UnescapeString(text), <<"\\", "u", "0", "0", "2", "6", "m", "d", "a", "s", "h", ";">>, EmDash),
               <<"\\", "u", "0", "0", "2", "6", "#", "8", "2", "1", "2", ";">>, EmDash)

----------------------------------------------------------------------------
(***************************************************************************)
(* Documents.  goquery.NewDocumentFromReader (library) turns the page text *)
(* into a tree; a page is given here as the sequence of its top-level      *)
(* nodes (empty for empty content) and htmlContent is its markup.  A tag   *)
(* with its attributes is one symbol of the markup.                        *)
(***************************************************************************)
TextNode(t) ==
    [tag |-> "#text", classes |-> {}, src |-> NilPtr, text |-> t, kids |-> <<>>]

Element(tag, classes, kids) ==
    [tag |-> tag, classes |-> classes, src |-> NilPtr, text |-> <<>>, kids |-> kids]

Img(srcAttr) ==
    [tag |-> "img", classes |-> {}, src |-> srcAttr, text |-> <<>>, kids |-> <<>>]

\* elements whose text the renderer writes unescaped
RawTextTags == {"script", "style"}
VoidTags == {"img", "br"}

RECURSIVE Render(_, _)
RECURSIVE RenderAll(_, _)
Render(n, raw) ==
    IF n.tag = "#text" THEN (IF raw THEN n.text ELSE EscapeString(n.text))
    ELSE <<"<", n.tag, ">">>
         \o (IF n.tag \in VoidTags THEN <<>>
             ELSE RenderAll(n.kids, n.tag \in RawTextTags) \o <<"<", "/", n.tag, ">">>)
RenderAll(ns, raw) ==
    IF ns = <<>> THEN <<>> ELSE Render(Head(ns), raw) \o RenderAll(Tail(ns), raw)

\* Selection.Html() of one element
Html(n) == RenderAll(n.kids, n.tag \in RawTextTags)

\* Selection.Text()
RECURSIVE Text(_)
RECURSIVE TextAll(_)
Text(n) == IF n.tag = "#text" THEN n.text ELSE TextAll(n.kids)
TextAll(ns) == IF ns = <<>> THEN <<>> ELSE Text(Head(ns)) \o TextAll(Tail(ns))

\* the nodes below ns in document order, each with its ancestors
RECURSIVE Walk(_, _)
RECURSIVE WalkAll(_, _)
Walk(n, anc) == <<[node |-> n, anc |-> anc]>> \o WalkAll(n.kids, Append(anc, n))
WalkAll(ns, anc) ==
    IF ns = <<>> THEN <<>> ELSE Walk(Head(ns), anc) \o WalkAll(Tail(ns), anc)

\* a compound selector: a tag name ("" for any) and class names
Sel(tag, classes) == [tag |-> tag, classes |-> classes]

Matches(n, c) ==
    /\ n.tag # "#text"
    /\ c.tag \in {"", n.tag}
    /\ c.classes \subseteq n.classes

\* some chain of ancestors, outermost first, matches the compounds cs
RECURSIVE AncMatch(_, _)
AncMatch(anc, cs) ==
    IF cs = <<>> THEN TRUE
    ELSE IF anc = <<>> THEN FALSE
    ELSE IF Matches(Head(anc), Head(cs)) /\ AncMatch(Tail(anc), Tail(cs)) THEN TRUE
    ELSE AncMatch(Tail(anc), cs)

\* the descendant selector cs[1] cs[2] ... matches the entry e
Selected(e, cs) ==
    /\ Matches(e.node, cs[Len(cs)])
    /\ AncMatch(e.anc, SubSeq(cs, 1, Len(cs) - 1))

\* Document.Find
Find(doc, cs) ==
    SelectSeq(WalkAll(doc, <<>>), LAMBDA e : Selected(e, cs))

\* Selection.Find on one element of a selection
FindIn(e, cs) ==
    SelectSeq(WalkAll(e.node.kids, Append(e.anc, e.node)), LAMBDA d : Selected(d, cs))

\* Selection.Text() of a selection
SelText(sel) == TextAll([i \in DOMAIN sel |-> sel[i].node])

----------------------------------------------------------------------------
(***************************************************************************)
(* models.IPInfo                                                           *)
(***************************************************************************)
PrincessURL == <<"h", "t", "t", "p", "s", ":", "/", "/", "l", "i", "n", "u", "x", ".", "d", "o", "/", "u", "/", "a", "m", "n", "a">>

NewIPInfo ==
    [IP |-> <<>>, IPLocation |-> <<>>, ASN |-> <<>>, ASNOwner |-> <<>>,
     ASNType |-> <<>>, Organization |-> <<>>, OrgType |-> <<>>,
     Longitude |-> <<>>, Latitude |-> <<>>, IPType |-> <<>>,
     RiskValue |-> <<>>, NativeIP |-> <<>>, CountryFlag |-> <<>>,
     Princess |-> PrincessURL]

\* `if i.Princess == "" { i.Princess = "https://linux.do/u/amna" }`
EnsurePrincess(info) == [info EXCEPT !.Princess = IF @ = <<>> THEN PrincessURL ELSE @]

(***************************************************************************)
(* Embedded script variables                                               *)
(***************************************************************************)
WindowIP == <<"w", "i", "n", "d", "o", "w", ".", "i", "p">>
WindowTar == <<"w", "i", "n", "d", "o", "w", ".", "t", "a", "r">>
WindowLongitude == <<"w", "i", "n", "d", "o", "w", ".", "l", "o", "n", "g", "i", "t", "u", "d", "e">>
WindowLatitude == <<"w", "i", "n", "d", "o", "w", ".", "l", "a", "t", "i", "t", "u", "d", "e">>
WindowLoc == <<"w", "i", "n", "d", "o", "w", ".", "l", "o", "c">>

varNames == <<WindowIP, WindowTar, WindowLongitude, WindowLatitude, WindowLoc>>

Quotes == {"'", "\""}

\* the pattern  varName\s*=\s*['"]([^'"]*)['"]\s*;  matched at the start of
\* s: the captured group, or nil when s does not start with a match
MatchAssign(s, varName) ==
    LET a == Drop(s, Len(varName))
        b == Drop(a, Span(a, WhiteSpace))
        c == Drop(Tail(b), Span(Tail(b), WhiteSpace))
        n == SpanNot(Tail(c), Quotes)
        d == Drop(c, n + 2)
        e == Drop(d, Span(d, WhiteSpace))
    IN  IF /\ HasPrefixAt(s, varName, 1)
           /\ b # <<>> /\ Head(b) = "="
           /\ c # <<>> /\ Head(c) \in Quotes
           /\ n + 1 < Len(c)
           /\ e # <<>> /\ Head(e) = ";"
        THEN Ptr(SubSeq(c, 2, n + 1)) ELSE NilPtr

\* FindStringSubmatch: the leftmost match
FirstMatch(content, varName) ==
    LET hits == {i \in DOMAIN content : MatchAssign(Drop(content, i - 1), varName) # NilPtr}
    IN  IF hits = {} THEN NilPtr
        ELSE MatchAssign(Drop(content, (CHOOSE i \in hits : \A j \in hits : i <= j) - 1),
                         varName)

\* the value extractScriptVar stores for varName, nil when it stores nothing
extractScriptVar(content, varName) ==
    IF Contains(content, varName) THEN FirstMatch(content, varName) ELSE NilPtr

\* the map after the script blocks in `scripts` have been scanned in order
RECURSIVE ScanScripts(_, _)
ScanScripts(scripts, values) ==
    IF scripts = <<>> THEN values
    ELSE ScanScripts(Tail(scripts),
            [v \in DOMAIN values |->
                LET found == extractScriptVar(Text(Head(scripts).node), v)
                IN  IF found # NilPtr THEN found ELSE values[v]])

\* a map entry is nil while the key is absent
extractScriptVariables(doc) ==
    ScanScripts(Find(doc, <<Sel("script", {})>>),
                [v \in {varNames[i] : i \in DOMAIN varNames} |-> NilPtr])

\* `v, ok := scriptValues[name]; ok && v != ""`
HasValue(values, name) == values[name] # NilPtr /\ Deref(values[name]) # <<>>

(***************************************************************************)
(* Field extraction from the DOM                                           *)
(***************************************************************************)
\* the value left by an Each loop that assigns cands[i] wherever it is set
LastAssigned(cands, old) ==
    LET hits == {i \in DOMAIN cands : cands[i] # NilPtr}
    IN  IF hits = {} THEN old
        ELSE Deref(cands[CHOOSE i \in hits : \A j \in hits : i >= j])

extractTextBetweenTags(html) ==
    TrimSpace(CollapseSpace(StripTemplates(StripTags(html))))

ReportLink == <<"u9519", "u8bef", "u63d0", "u4ea4">>

LocationText(n) ==
    CollapseSpace(TrimSpace(ReplaceAll(extractTextBetweenTags(Html(n)), ReportLink, <<>>)))

LocContent == <<Sel("", {"line", "loc"}), Sel("", {"content"})>>

extractIPLocation(doc, old) ==
    LET sel == Find(doc, LocContent)
    IN  LastAssigned([i \in DOMAIN sel |->
                        LET text == LocationText(sel[i].node)
                        IN  IF text # <<>> THEN Ptr(decodeHTMLEntities(text)) ELSE NilPtr],
                     old)

Last(s) == s[Len(s)]

extractCountryFlag(doc, old) ==
    LET sel == Find(doc, LocContent \o <<Sel("img", {})>>)
    IN  LastAssigned([i \in DOMAIN sel |->
                        IF sel[i].node.src # NilPtr
                        THEN Ptr(TrimSuffix(Last(Split(Deref(sel[i].node.src), <<"/">>)),
                                            <<".", "p", "n", "g">>))
                        ELSE NilPtr],
                     old)

extractASN(doc, old) ==
    LET sel == Find(doc, <<Sel("", {"line", "asn"}), Sel("", {"content"}), Sel("a", {})>>)
    IN  LastAssigned([i \in DOMAIN sel |-> Ptr(TrimSpace(Text(sel[i].node)))], old)

----------------------------------------------------------------------------
Label == <<Sel("", {"label"})>>

\* n after Remove() of every .label element below it
RECURSIVE StripLabels(_)
RECURSIVE StripLabelsAll(_)
StripLabels(n) == [n EXCEPT !.kids = StripLabelsAll(n.kids)]
StripLabelsAll(ns) ==
    IF ns = <<>> THEN <<>>
    ELSE (IF Matches(Head(ns), Label[1]) THEN <<>> ELSE <<StripLabels(Head(ns))>>)
         \o StripLabelsAll(Tail(ns))

\* an earlier element of the selection cs is an ancestor of e, so that its
\* iteration has already removed the labels below e
StrippedBefore(e, cs) ==
    \E k \in DOMAIN e.anc :
        Selected([node |-> e.anc[k], anc |-> SubSeq(e.anc, 1, k - 1)], cs)

\* the element e of the selection cs as its own iteration finds it
Current(e, cs) == IF StrippedBefore(e, cs) THEN StripLabels(e.node) ELSE e.node

\* the document after the Each loop over cs has removed the labels
RECURSIVE RemoveLabels(_, _, _, _)
RemoveLabels(ns, anc, cs, inside) ==
    IF ns = <<>> THEN <<>>
    ELSE LET n == Head(ns)
             hit == Selected([node |-> n, anc |-> anc], cs)
         IN  (IF inside /\ Matches(n, Label[1]) THEN <<>>
              ELSE <<[n EXCEPT !.kids =
                        RemoveLabels(n.kids, Append(anc, n), cs, inside \/ hit)]>>)
             \o RemoveLabels(Tail(ns), anc, cs, inside)

\* content[:dashIndex], trimmed, when the text has an em dash
CutAtDash(content) ==
    IF Index(content, EmDash) # 0
    THEN TrimSpace(SubSeq(content, 1, Index(content, EmDash) - 1))
    ELSE content

OwnerText(n) == decodeHTMLEntities(CutAtDash(TrimSpace(Text(StripLabels(n)))))

\* the non-empty trimmed texts of a selection
LabelTexts(sel) ==
    LET texts == [i \in DOMAIN sel |-> TrimSpace(Text(sel[i].node))]
    IN  SelectSeq(texts, LAMBDA t : t # <<>>)

TypeSeparator == <<";", " ">>

\* the owner and the types left by the Each loop over the selection cs
extractOwner(doc, cs, old) ==
    LET sel == Find(doc, cs)
    IN  LastAssigned([i \in DOMAIN sel |-> Ptr(OwnerText(Current(sel[i], cs)))], old)

extractTypes(doc, cs, old) ==
    LET sel == Find(doc, cs)
    IN  LastAssigned([i \in DOMAIN sel |->
                        LET types == LabelTexts(FindIn([node |-> Current(sel[i], cs),
                                                        anc |-> sel[i].anc], Label))
                        IN  IF types # <<>> THEN Ptr(Join(types, TypeSeparator))
                            ELSE NilPtr],
                     old)

AsnNameContent == <<Sel("", {"line", "asnname"}), Sel("", {"content"})>>
OrgNameContent == <<Sel("", {"line", "orgname"}), Sel("", {"content"})>>

extractASNInfo(doc, info) ==
    [info EXCEPT !.ASNOwner = extractOwner(doc, AsnNameContent, @),
                 !.ASNType = extractTypes(doc, AsnNameContent, @)]

extractOrgInfo(doc, info) ==
    [info EXCEPT !.Organization = extractOwner(doc, OrgNameContent, @),
                 !.OrgType = extractTypes(doc, OrgNameContent, @)]

LongitudeName == <<"u7ecf", "u5ea6">>
LatitudeName == <<"u7eac", "u5ea6">>

\* the Each loop over .line that reads the content of the line called name
extractNamedLine(doc, name, old) ==
    LET sel == Find(doc, <<Sel("", {"line"})>>)
    IN  LastAssigned([i \in DOMAIN sel |->
                        IF TrimSpace(SelText(FindIn(sel[i], <<Sel("", {"name"})>>))) = name
                        THEN Ptr(TrimSpace(SelText(FindIn(sel[i], <<Sel("", {"content"})>>))))
                        ELSE NilPtr],
                     old)

extractIPTypes(doc, old) ==
    LET types == LabelTexts(Find(doc, <<Sel("", {"line", "line-iptype"}),
                                        Sel("", {"content"}), Sel("", {"label"})>>))
    IN  IF types # <<>> THEN Join(types, TypeSeparator) ELSE old

extractRiskValue(doc, old) ==
    LET sel == Find(doc, <<Sel("", {"line", "line-risk"}), Sel("", {"content"}),
                           Sel("", {"riskbar"}), Sel("", {"riskcurrent"})>>)
    IN  LastAssigned([i \in DOMAIN sel |->
                        LET value == TrimSpace(SelText(FindIn(sel[i], <<Sel("", {"value"})>>)))
                            lab == TrimSpace(SelText(FindIn(sel[i], <<Sel("", {"lab"})>>)))
                        IN  IF value # <<>> /\ lab # <<>> THEN Ptr(value \o <<" ">> \o lab)
                            ELSE NilPtr],
                     old)

extractNativeIP(doc, old) ==
    LET sel == Find(doc, <<Sel("", {"line", "line-nativeip"}), Sel("", {"content"}),
                           Sel("", {"label"})>>)
    IN  LastAssigned([i \in DOMAIN sel |-> Ptr(TrimSpace(Text(sel[i].node)))], old)

----------------------------------------------------------------------------
(***************************************************************************)
(* ParseIPInfo, one action per stage of the function                       *)
(***************************************************************************)
ErrorMarker == <<"u7cfb", "u7edf", "u53d1", "u751f", "u9519", "u8bef">>
ErrorWord == <<"E", "r", "r", "o", "r">>

\* the page text handed to ParseIPInfo
htmlContent == RenderAll(page, FALSE)

\* an error is nil or a pair <<kind, text>>; the kinds are
\*   EmptyContent    "HTML内容为空"
\*   ErrorPage       "网站返回错误: ..." and "网站返回错误页面: ..."
\*   MissingAddress  "无法从页面提取IP信息，可能是错误页面" and "未能提取到IP信息"
Error(kind, text) == <<kind, text>>

ParseReturn(info, e) ==
    /\ result' = info
    /\ parseErr' = e
    /\ pc' = "done"

\* the phrase test on the page text, skipped
NoMarker(text) == FALSE

\* strings.Contains(htmlContent, "系统发生错误")
HasMarker(text) == Contains(text, ErrorMarker)

\* strings.Contains(title, "系统发生错误") || strings.Contains(title, "Error")
IsErrorTitle(t) == Contains(t, ErrorMarker) \/ Contains(t, ErrorWord)

ParseCheckContent ==
    /\ entry = "ParseIPInfo"
    /\ pc = "start"
    /\ IF htmlContent = <<>>
       THEN /\ ParseReturn(NilPtr, Error("EmptyContent", <<>>))
            /\ UNCHANGED document
       ELSE IF HasMarker(htmlContent)
       THEN LET errorMsg == SelText(Find(page, <<Sel("", {"error-message"})>>))
            IN  /\ ParseReturn(NilPtr, Error("ErrorPage",
                        IF errorMsg # <<>> THEN errorMsg ELSE ErrorMarker))
                /\ UNCHANGED document
       ELSE /\ document' = page
            /\ pc' = "title"
            /\ UNCHANGED <<result, parseErr>>
    /\ UNCHANGED <<page, title, scriptValues, ipInfo>>
    /\ UNCHANGED <<entry, solverData, jsonText, validateErr, serverVars, regexVars>>

ParseCheckTitle ==
    /\ entry = "ParseIPInfo"
    /\ pc = "title"
    /\ title' = SelText(Find(document, <<Sel("title", {})>>))
    /\ IF IsErrorTitle(title')
       THEN /\ ParseReturn(NilPtr, Error("ErrorPage", title'))
            /\ UNCHANGED <<ipInfo, scriptValues>>
       ELSE /\ ipInfo' = Ptr(NewIPInfo)
            /\ scriptValues' = extractScriptVariables(document)
            /\ pc' = "ip"
            /\ UNCHANGED <<result, parseErr>>
    /\ UNCHANGED <<page, document>>
    /\ UNCHANGED <<entry, solverData, jsonText, validateErr, serverVars, regexVars>>

\* the title taken whole
TitleWhole(t) == t

\* strings.TrimSpace(strings.Split(title, "-")[0])
TitleAddress(t) == TrimSpace(Split(t, <<"-">>)[1])

\* the structural value chosen first
AddressFromTitleFirst(values, t) ==
    IF TitleAddress(t) # <<>> THEN TitleAddress(t)
    ELSE IF HasValue(values, WindowIP) THEN Deref(values[WindowIP]) ELSE <<>>

AddressOf(values, t) ==
    IF HasValue(values, WindowIP) THEN Deref(values[WindowIP]) ELSE TitleAddress(t)

\* a test that lets every record through
AddressNeverMissing(info) == FALSE

\* if ipInfo.IP == ""
AddressMissing(info) == info.IP = <<>>

ParseSetIP ==
    /\ entry = "ParseIPInfo"
    /\ pc = "ip"
    /\ ipInfo' = Ptr([Deref(ipInfo) EXCEPT !.IP = AddressOf(scriptValues, title)])
    /\ IF AddressMissing(Deref(ipInfo'))
       THEN ParseReturn(NilPtr, Error("MissingAddress", <<>>))
       ELSE /\ pc' = "fields"
            /\ UNCHANGED <<result, parseErr>>
    /\ UNCHANGED <<page, document, title, scriptValues>>
    /\ UNCHANGED <<entry, solverData, jsonText, validateErr, serverVars, regexVars>>

\* a field that has an embedded variable and a DOM fallback
Preferred(values, name, structural) ==
    IF HasValue(values, name) THEN Deref(values[name]) ELSE structural

LocationOf(values, doc, old) ==
    IF HasValue(values, WindowLoc) THEN decodeHTMLEntities(Deref(values[WindowLoc]))
    ELSE extractIPLocation(doc, old)

ParseExtractFields ==
    /\ entry = "ParseIPInfo"
    /\ pc = "fields"
    /\ LET doc1 == RemoveLabels(document, <<>>, AsnNameContent, FALSE)
           doc2 == RemoveLabels(doc1, <<>>, OrgNameContent, FALSE)
           located == [Deref(ipInfo) EXCEPT
                         !.IPLocation = LocationOf(scriptValues, document, @),
                         !.CountryFlag = extractCountryFlag(document, @),
                         !.ASN = extractASN(document, @)]
           owned == extractOrgInfo(doc1, extractASNInfo(document, located))
       IN  /\ document' = doc2
           /\ ipInfo' = Ptr([owned EXCEPT
                  !.Longitude = Preferred(scriptValues, WindowLongitude,
                                          extractNamedLine(doc2, LongitudeName, @)),
                  !.Latitude = Preferred(scriptValues, WindowLatitude,
                                         extractNamedLine(doc2, LatitudeName, @)),
                  !.IPType = extractIPTypes(doc2, @),
                  !.RiskValue = extractRiskValue(doc2, @),
                  !.NativeIP = extractNativeIP(doc2, @)])
    /\ pc' = "validate"
    /\ UNCHANGED <<page, title, scriptValues, result, parseErr>>
    /\ UNCHANGED <<entry, solverData, jsonText, validateErr, serverVars, regexVars>>

ParseFinish ==
    /\ entry = "ParseIPInfo"
    /\ pc = "validate"
    /\ IF AddressMissing(Deref(ipInfo))
       THEN /\ ParseReturn(NilPtr, Error("MissingAddress", <<>>))
            /\ UNCHANGED ipInfo
       ELSE /\ ipInfo' = Ptr(EnsurePrincess(Deref(ipInfo)))
            /\ ParseReturn(ipInfo', NilPtr)
    /\ UNCHANGED <<page, document, title, scriptValues>>
    /\ UNCHANGED <<entry, solverData, jsonText, validateErr, serverVars, regexVars>>

----------------------------------------------------------------------------
(***************************************************************************)
(* JSON serialization of a record.  encoding/json is library code: a       *)
(* string is written between quotes with the escapes below, the fields in  *)
(* the order of the struct that MarshalJSON builds.                        *)
(***************************************************************************)
\* <<character, escape>> of encoding/json with HTML escaping on
JsonEscapes == <<
    <<"\"", <<"\\", "\"">>>>, <<"\\", <<"\\", "\\">>>>, <<"\n", <<"\\", "n">>>>, <<"\t", <<"\\", "t">>>>,
    <<"<", <<"\\", "u", "0", "0", "3", "c">>>>, <<">", <<"\\", "u", "0", "0", "3", "e">>>>, <<"&", <<"\\", "u", "0", "0", "2", "6">>>> >>

RECURSIVE JsonEscape(_)
JsonEscape(s) ==
    IF s = <<>> THEN <<>>
    ELSE LET hits == {i \in DOMAIN JsonEscapes : JsonEscapes[i][1] = Head(s)}
         IN  (IF hits = {} THEN <<Head(s)>> ELSE JsonEscapes[CHOOSE i \in hits : TRUE][2])
             \o JsonEscape(Tail(s))

JsonString(s) == <<"\"">> \o JsonEscape(s) \o <<"\"">>

\* the attribution written first
FieldsPrincessFirst(info) ==
    << <<<<"p", "r", "i", "n", "c", "e", "s", "s">>, info.Princess>>, <<<<"i", "p">>, info.IP>> >>

\* the anonymous struct of MarshalJSON: <<key, value>> in field order
Fields(info) == <<
    <<<<"i", "p">>, info.IP>>,
    <<<<"i", "p", "_", "l", "o", "c", "a", "t", "i", "o", "n">>, info.IPLocation>>,
    <<<<"a", "s", "n">>, info.ASN>>,
    <<<<"a", "s", "n", "_", "o", "w", "n", "e", "r">>, info.ASNOwner>>,
    <<<<"a", "s", "n", "_", "t", "y", "p", "e">>, info.ASNType>>,
    <<<<"o", "r", "g", "a", "n", "i", "z", "a", "t", "i", "o", "n">>, info.Organization>>,
    <<<<"o", "r", "g", "_", "t", "y", "p", "e">>, info.OrgType>>,
    <<<<"l", "o", "n", "g", "i", "t", "u", "d", "e">>, info.Longitude>>,
    <<<<"l", "a", "t", "i", "t", "u", "d", "e">>, info.Latitude>>,
    <<<<"i", "p", "_", "t", "y", "p", "e">>, info.IPType>>,
    <<<<"r", "i", "s", "k", "_", "v", "a", "l", "u", "e">>, info.RiskValue>>,
    <<<<"n", "a", "t", "i", "v", "e", "_", "i", "p">>, info.NativeIP>>,
    <<<<"c", "o", "u", "n", "t", "r", "y", "_", "f", "l", "a", "g">>, info.CountryFlag>>,
    <<<<"p", "r", "i", "n", "c", "e", "s", "s">>, info.Princess>> >>

\* json.Marshal of the struct
Compact(fields) ==
    <<"{">>
    \o Join([i \in DOMAIN fields |->
                JsonString(fields[i][1]) \o <<":">> \o JsonString(fields[i][2])], <<",">>)
    \o <<"}">>

\* json.MarshalIndent(.., "", "  ") of the same bytes
Indented(fields) ==
    <<"{", "\n">>
    \o Join([i \in DOMAIN fields |->
                <<" ", " ">> \o JsonString(fields[i][1]) \o <<":", " ">>
                \o JsonString(fields[i][2])], <<",", "\n">>)
    \o <<"\n", "}">>

\* a caller serializes the record it was given
MarshalJSON ==
    /\ entry \in {"ParseIPInfo", "IPInfo"}
    /\ pc = "done"
    /\ result # NilPtr
    /\ result' = Ptr(EnsurePrincess(Deref(result)))
    /\ jsonText' = Compact(Fields(Deref(result')))
    /\ UNCHANGED <<entry, pc, solverData, serverVars, regexVars, page, document, title, scriptValues,
                   ipInfo, parseErr, validateErr>>

\* ToJSON reaches MarshalJSON through json.MarshalIndent
ToJSON ==
    /\ entry \in {"ParseIPInfo", "IPInfo"}
    /\ pc = "done"
    /\ result # NilPtr
    /\ result' = Ptr(EnsurePrincess(EnsurePrincess(Deref(result))))
    /\ jsonText' = Indented(Fields(Deref(result')))
    /\ UNCHANGED <<entry, pc, solverData, serverVars, regexVars, page, document, title, scriptValues,
                   ipInfo, parseErr, validateErr>>

\* Validate: a record without an address is refused, any other gets its
\* Princess field completed
Validate ==
    /\ entry \in {"ParseIPInfo", "IPInfo"}
    /\ pc = "done"
    /\ result # NilPtr
    /\ IF Deref(result).IP = <<>>
       THEN /\ validateErr' = Ptr("EmptyIP")
            /\ UNCHANGED result
       ELSE /\ result' = Ptr(EnsurePrincess(Deref(result)))
            /\ validateErr' = NilPtr
    /\ UNCHANGED <<entry, pc, solverData, serverVars, regexVars, page, document, title,
                   scriptValues, ipInfo, parseErr, jsonText>>

----------------------------------------------------------------------------
(***************************************************************************)
(* Pages                                                                   *)
(***************************************************************************)
\* the most script blocks in a page
MaxScripts == 2

Div(classes, kids) == Element("div", classes, kids)

Labelled(classes, t) == Element("span", classes, <<TextNode(t)>>)

\* <div class="line ..."><div class="name">..</div><div class="content">..</div></div>
Line(classes, name, kids) ==
    Div({"line"} \cup classes, <<Div({"name"}, <<TextNode(name)>>), Div({"content"}, kids)>>)

TitleTexts ==
    {<<"1", ".", "2", ".", "3", ".", "4", " ", "-", " ", "P", "i", "n", "g", "0", ".", "c", "c">>, <<" ", "-", " ", "P", "i", "n", "g", "0", ".", "c", "c">>, <<"8", ".", "8", ".", "8", ".", "8">>, <<"E", "r", "r", "o", "r", " ", "4", "0", "4">>,
     <<"5", ".", "5", ".", "5", ".", "5", " ", "-", " ", "u7cfb", "u7edf", "u53d1", "u751f", "u9519", "u8bef">>}

\* no title element, or one
Titles == {<<>>} \cup {<<Element("title", {}, <<TextNode(t)>>)>> : t \in TitleTexts}

ScriptTexts ==
    {<<"w", "i", "n", "d", "o", "w", ".", "i", "p", " ", "=", " ", "'", "1", ".", "1", ".", "1", ".", "1", "'", ";", " ", "w", "i", "n", "d", "o", "w", ".", "l", "o", "c", " ", "=", " ", "\"", "u7f8e", "u56fd", " ", "&", "m", "d", "a", "s", "h", ";", " ", "u52a0", "u5dde", "\"", ";", " ", "w", "i", "n", "d", "o", "w", ".", "l", "o", "n", "g", "i", "t", "u", "d", "e", " ", "=", " ", "'", "-", "1", "2", "2", ".", "0", "8", "'", ";", " ", "w", "i", "n", "d", "o", "w", ".", "l", "a", "t", "i", "t", "u", "d", "e", " ", "=", " ", "\"", "3", "7", ".", "4", "\"", ";">>,
     <<"w", "i", "n", "d", "o", "w", ".", "i", "p", " ", "=", " ", "'", "'", ";", " ", "w", "i", "n", "d", "o", "w", ".", "l", "o", "c", "=", "'", "'", ";", " ", "w", "i", "n", "d", "o", "w", ".", "l", "o", "n", "g", "i", "t", "u", "d", "e", " ", "=", " ", "\"", "\"", ";", " ", "w", "i", "n", "d", "o", "w", ".", "l", "a", "t", "i", "t", "u", "d", "e", "=", "'", "'", " ", ";">>,
     <<"c", "o", "n", "s", "o", "l", "e", ".", "l", "o", "g", "(", "w", "i", "n", "d", "o", "w", ".", "i", "p", ",", " ", "w", "i", "n", "d", "o", "w", ".", "l", "o", "c", ")", ";">>,
     <<"w", "i", "n", "d", "o", "w", ".", "i", "p", " ", "=", " ", "\"", "9", ".", "9", ".", "9", ".", "9", "\"", ";", " ", "w", "i", "n", "d", "o", "w", ".", "l", "o", "c", " ", "=", " ", "'", "u5fb7", "u56fd", " ", "u67cf", "u6797", "'", ";", " ", "w", "i", "n", "d", "o", "w", ".", "l", "o", "n", "g", "i", "t", "u", "d", "e", " ", "=", " ", "'", " ", "5", " ", "'", ";">>}

RECURSIVE SeqsUpTo(_, _)
SeqsUpTo(S, n) ==
    IF n = 0 THEN {<<>>}
    ELSE SeqsUpTo(S, n - 1) \cup {Append(s, x) : s \in SeqsUpTo(S, n - 1), x \in S}

ScriptLists ==
    {[i \in DOMAIN ts |-> Element("script", {}, <<TextNode(ts[i])>>)] :
        ts \in SeqsUpTo(ScriptTexts, MaxScripts)}

BodyFull == <<
    Line({"loc"}, <<"I", "P", " ", "u4f4d", "u7f6e">>, <<Img(Ptr(<<"/", "s", "t", "a", "t", "i", "c", "/", "i", "m", "a", "g", "e", "s", "/", "f", "l", "a", "g", "s", "/", "u", "s", ".", "p", "n", "g">>)),
                               TextNode(<<" ", "u7f8e", "u56fd", " ", "u52a0", "u5229", "u798f", "u5c3c", "u4e9a", " ", " ", "u6d1b", "u6749", "u77f6", " ">>),
                               Element("a", {}, <<TextNode(<<"u9519", "u8bef", "u63d0", "u4ea4">>)>>)>>),
    Line({"asn"}, <<"A", "S", "N">>, <<Element("a", {}, <<TextNode(<<" ", "A", "S", "1", "5", "1", "6", "9", " ">>)>>)>>),
    Line({"asnname"}, <<"A", "S", "N", " ", "u6240", "u6709", "u8005">>,
         <<TextNode(<<" ", "G", "o", "o", "g", "l", "e", " ", "L", "L", "C", " ">>), Labelled({"label"}, <<"I", "D", "C">>),
           TextNode(<<" ", "u2014", " ", "g", "o", "o", "g", "l", "e", ".", "c", "o", "m", " ">>), Labelled({"label"}, <<" ", "I", "S", "P", " ">>)>>),
    Line({"orgname"}, <<"u4f01", "u4e1a">>, <<TextNode(<<"O", "r", "g", "&", "a", "m", "p", ";", "C", "o">>), Labelled({"label"}, <<"I", "D", "C">>)>>),
    Line({}, <<" ", "u7ecf", "u5ea6", " ">>, <<TextNode(<<" ", "-", "1", "1", "8", ".", "2", "4", " ">>)>>),
    Line({}, <<"u7eac", "u5ea6">>, <<TextNode(<<"3", "4", ".", "0", "5">>)>>),
    Line({"line-iptype"}, <<"I", "P", "u7c7b", "u578b">>,
         <<Labelled({"label"}, <<"I", "D", "C", "u673a", "u623f", "I", "P">>), Labelled({"label"}, <<" ">>),
           Labelled({"label"}, <<"u539f", "u751f">>)>>),
    Line({"line-risk"}, <<"u98ce", "u63a7", "u503c">>,
         <<Div({"riskbar"}, <<Div({"riskcurrent"},
              <<Labelled({"value"}, <<"1", "7", "%">>), Labelled({"lab"}, <<" ", "u6781", "u5ea6", "u7eaf", "u51c0", " ">>)>>)>>)>>),
    Line({"line-nativeip"}, <<"u539f", "u751f", " ", "I", "P">>, <<Labelled({"label"}, <<" ", "u539f", "u751f", " ", "I", "P", " ">>)>>) >>

BodyGeo == <<
    Line({"loc"}, <<"I", "P", " ", "u4f4d", "u7f6e">>, <<TextNode(<<"u65e5", "u672c", " ", "{", "{", " ", "c", "i", "t", "y", " ", "}", "}", "\n", " ", "u4e1c", "u4eac", " ">>)>>),
    Line({}, <<"u7ecf", "u5ea6">>, <<TextNode(<<"1", "3", "9", ".", "6", "9">>)>>),
    Line({}, <<"u7ecf", "u5ea6">>, <<TextNode(<<>>)>>),
    Line({}, <<"u7eac", "u5ea6">>, <<TextNode(<<" ", "3", "5", ".", "6", "8">>)>>) >>

BodyErrorMessage == <<Div({"error-message"}, <<TextNode(<<"u7cfb", "u7edf", "u53d1", "u751f", "u9519", "u8bef", ":", " ", "u8bbf", "u95ee", "u8fc7", "u4e8e", "u9891", "u7e41">>)>>)>>

BodyMarkerText == <<
    Element("p", {}, <<TextNode(<<"u62b1", "u6b49", "uff0c", "u7cfb", "u7edf", "u53d1", "u751f", "u9519", "u8bef">>)>>),
    Line({}, <<"u7ecf", "u5ea6">>, <<TextNode(<<"1", "3", "9", ".", "6", "9">>)>>) >>

\* a page that repeats the owner, organisation and type lines
BodyRepeated == <<
    Line({"asnname"}, <<"A", "S", "N", " ", "u6240", "u6709", "u8005">>,
         <<TextNode(<<"C", "l", "o", "u", "d", "f", "l", "a", "r", "e", ",", " ", "I", "n", "c", ".">>), Labelled({"label"}, <<"I", "D", "C">>)>>),
    Line({"asnname"}, <<"A", "S", "N", " ", "u6240", "u6709", "u8005">>,
         <<TextNode(<<"A", "P", "N", "I", "C", " ", "\\", "u", "0", "0", "2", "6", "m", "d", "a", "s", "h", ";", " ", "a", "p", "n", "i", "c", ".", "n", "e", "t">>), Labelled({"label"}, <<"I", "S", "P">>)>>),
    Line({"orgname"}, <<"u4f01", "u4e1a">>, <<TextNode(<<"A", "P", "N", "I", "C", " ", "R", "e", "s", "e", "a", "r", "c", "h">>), Labelled({"label"}, <<"G", "O", "V">>)>>),
    Line({"orgname"}, <<"u4f01", "u4e1a">>, <<TextNode(<<" ", "E", "x", "a", "m", "p", "l", "e", "&", "a", "m", "p", ";", "m", "d", "a", "s", "h", ";", "C", "o", " ">>)>>),
    Line({"line-iptype"}, <<"I", "P", "u7c7b", "u578b">>, <<Labelled({"label"}, <<"I", "D", "C", "u673a", "u623f", "I", "P">>)>>),
    Line({"line-iptype"}, <<"I", "P", "u7c7b", "u578b">>, <<Labelled({"label"}, <<"C", "l", "o", "u", "d", "F", "l", "a", "r", "e", " ", "D", "N", "S", " ", "I", "P">>)>>) >>

Bodies == {<<>>, BodyFull, BodyGeo, BodyErrorMessage, BodyMarkerText, BodyRepeated}

Page(titles, scripts, body) ==
    <<Element("html", {}, <<Element("head", {}, titles \o scripts),
                            Element("body", {}, body)>>)>>

\* the empty content and the pages built from the parts above
Pages ==
    {<<>>} \cup {Page(t, s, b) : t \in Titles, s \in ScriptLists, b \in Bodies}

SolverIdle ==
    /\ x1Value = <<>>
    /\ difficultyValue = <<>>
    /\ href = <<>>
    /\ anim = FALSE
    /\ counter = 0
    /\ hashEvals = 0
    /\ powValue = 0
    /\ powErr = Nil
    /\ js1key = 0
    /\ keys = NilPtr
    /\ err = Nil

\* records a caller of the package builds itself, as a struct literal or
\* by decoding JSON: without and with an address, without and with the
\* Princess field
GivenRecords ==
    {[NewIPInfo EXCEPT !.IP = ip, !.Princess = princess] :
        ip \in {<<>>, <<"1", ".", "1", ".", "1", ".", "1">>}, princess \in {<<>>, PrincessURL}}

\* a call of ParseIPInfo on a page, or the methods of IPInfo on a given
\* record
ParseInit ==
    /\ \/ /\ entry = "ParseIPInfo"
          /\ pc = "start"
          /\ page \in Pages
          /\ result = NilPtr
       \/ /\ entry = "IPInfo"
          /\ pc = "done"
          /\ page = <<>>
          /\ result \in {Ptr(i) : i \in GivenRecords}
    /\ document = <<>>
    /\ title = <<>>
    /\ scriptValues = <<>>
    /\ ipInfo = NilPtr
    /\ parseErr = NilPtr
    /\ jsonText = <<>>
    /\ validateErr = NilPtr
    /\ SolverIdle
    /\ globals = <<>>
    /\ jars = <<>>
    /\ reqs = <<>>
    /\ RegexUnused

ParseNext ==
    \/ ParseCheckContent
    \/ ParseCheckTitle
    \/ ParseSetIP
    \/ ParseExtractFields
    \/ ParseFinish
    \/ MarshalJSON
    \/ ToJSON
    \/ Validate

ParseSpec == ParseInit /\ [][ParseNext]_vars

----------------------------------------------------------------------------
(***************************************************************************)
(* The API server: /query handlers that run concurrently over the package  *)
(* variables of constants and client                                       *)
(***************************************************************************)
\* the connections whose handlers run concurrently
Requests == {1, 2}

\* a cookie jar: the nonce the upstream tied to the jar's session, and the
\* js1key and pow cookies set on the jar
NewJar == [session |-> NilPtr, cookies |-> NilPtr]

\* a request that has not been handled yet
NewRequest ==
    [pc |-> "arrived", method |-> "", auth |-> <<>>, decodable |-> TRUE, ip |-> <<>>,
     issued |-> NilPtr, x1 |-> <<>>, difficulty |-> <<>>, keys |-> NilPtr,
     url |-> <<>>, sent |-> NilPtr, doc |-> <<>>,
     status |-> 0, info |-> NilPtr, error |-> NilPtr, steps |-> <<>>]

\* w.WriteHeader(status) and the body written after it
Answer(req, status, info, e) ==
    [req EXCEPT !.pc = "done", !.status = status, !.info = info, !.error = e]

\* a step of ProcessIPInfo has returned
StepDone(req, step, ok) ==
    [req EXCEPT !.steps = Append(@, [step |-> step, ok |-> ok])]

\* a failure is never acted on
NoError(e) == FALSE

\* if err != nil
IsError(e) == e # NilPtr

\* `return nil, fmt.Errorf("Step N ...")` and the handler's 500
Fail(req, step, e) == Answer(StepDone(req, step, FALSE), 500, NilPtr, e)

\* the header is only required to start with "Bearer "
UnauthorizedScheme(authHeader, key) ==
    authHeader = <<>> \/ ~HasPrefixAt(authHeader, <<"B", "e", "a", "r", "e", "r", " ">>, 1)

Unauthorized(authHeader, key) ==
    \/ authHeader = <<>>
    \/ ~HasPrefixAt(authHeader, <<"B", "e", "a", "r", "e", "r", " ">>, 1)
    \/ Drop(authHeader, 7) # key

SampleKey == <<"s", "3">>

AddressA == <<"1", ".", "1", ".", "1", ".", "1">>

AddressB == <<"8", ".", "8", ".", "8", ".", "8">>

\* the requests the clients send: method, Authorization header, whether a
\* JSON body can be decoded, and the ip parameter
RequestInputs ==
    {[method |-> "GET", auth |-> <<>>, decodable |-> TRUE, ip |-> <<>>],
     [method |-> "GET", auth |-> <<"B", "e", "a", "r", "e", "r", " ", "s", "3">>, decodable |-> TRUE, ip |-> AddressA],
     [method |-> "POST", auth |-> <<"B", "e", "a", "r", "e", "r", " ", "s", "3">>, decodable |-> TRUE, ip |-> AddressB],
     [method |-> "POST", auth |-> <<"B", "e", "a", "r", "e", "r", " ", "s", "3">>, decodable |-> FALSE, ip |-> AddressB],
     [method |-> "GET", auth |-> <<"B", "e", "a", "r", "e", "r", " ", "s", "3", "x">>, decodable |-> TRUE, ip |-> AddressA],
     [method |-> "POST", auth |-> <<"s", "3">>, decodable |-> TRUE, ip |-> AddressB],
     [method |-> "OPTIONS", auth |-> <<>>, decodable |-> TRUE, ip |-> <<>>],
     [method |-> "PUT", auth |-> <<"B", "e", "a", "r", "e", "r", " ", "s", "3">>, decodable |-> TRUE, ip |-> AddressA]}

handleIPQuery(r) ==
    /\ entry = "handleIPQuery"
    /\ pc = "idle"
    /\ reqs[r].pc = "arrived"
    /\ \E in \in RequestInputs :
        LET req == [reqs[r] EXCEPT !.method = in.method, !.auth = in.auth,
                                   !.decodable = in.decodable, !.ip = in.ip]
        IN  reqs' = [reqs EXCEPT ![r] =
                IF in.method = "OPTIONS" THEN Answer(req, 200, NilPtr, NilPtr)
                ELSE IF in.method # "POST" /\ in.method # "GET"
                THEN Answer(req, 405, NilPtr, Ptr("MethodNotAllowed"))
                ELSE IF globals.APIKey # <<>> /\ Unauthorized(in.auth, globals.APIKey)
                THEN Answer(req, 401, NilPtr, Ptr("Unauthorized"))
                ELSE IF in.method = "POST" /\ ~in.decodable
                THEN Answer(req, 400, NilPtr, Ptr("BadRequest"))
                ELSE [req EXCEPT !.pc = "process"]]
    /\ UNCHANGED <<globals, jars, entry, pc, solverData, regexVars, parserVars>>

\* constants.QueryIP = queryIP
ProcessIPInfo(r) ==
    /\ entry = "handleIPQuery"
    /\ pc = "idle"
    /\ reqs[r].pc = "process"
    /\ globals' = [globals EXCEPT !.QueryIP = reqs[r].ip]
    /\ reqs' = [reqs EXCEPT ![r].pc = "reset"]
    /\ UNCHANGED <<jars, entry, pc, solverData, regexVars, parserVars>>

\* the server runs with constants.ServerMode set, so GetInitialPage starts
\* by replacing the package's client with one that has a new jar
resetHTTPClient(r) ==
    /\ entry = "handleIPQuery"
    /\ pc = "idle"
    /\ reqs[r].pc = "reset"
    /\ jars' = Append(jars, NewJar)
    /\ globals' = [globals EXCEPT !.httpClient = Len(jars) + 1]
    /\ reqs' = [reqs EXCEPT ![r].pc = "fetch"]
    /\ UNCHANGED <<entry, pc, solverData, regexVars, parserVars>>

\* the value GetInitialPage reads after `name = '` or `name = "` in one
\* script block; old when the block assigns nothing
AssignedValue(content, name, old) ==
    LET single == Index(content, name \o <<" ", "=", " ", "'">>)
        start == IF single # 0 THEN single ELSE Index(content, name \o <<" ", "=", " ", "\"">>)
        rest == Drop(content, start - 1 + Len(name) + 4)
        quote == Index(rest, <<"'">>)
        end == IF quote # 0 THEN quote ELSE Index(rest, <<"\"">>)
    IN  IF Contains(content, name) /\ start # 0 /\ end > 1
        THEN SubSeq(rest, 1, end - 1) ELSE old

RECURSIVE ScanInitial(_, _)
ScanInitial(scripts, values) ==
    IF scripts = <<>> THEN values
    ELSE ScanInitial(Tail(scripts),
            [x1 |-> AssignedValue(Text(Head(scripts).node), <<"w", "i", "n", "d", "o", "w", ".", "x", "1">>, values.x1),
             difficulty |-> AssignedValue(Text(Head(scripts).node), <<"w", "i", "n", "d", "o", "w", ".", "d", "i", "f", "f", "i", "c", "u", "l", "t", "y">>,
                                          values.difficulty)])

\* x1Value and difficultyValue as found in the initial document
InitialValues(doc) ==
    ScanInitial(Find(doc, <<Sel("script", {})>>), [x1 |-> <<>>, difficulty |-> <<>>])

\* the nonces the upstream issues; they are picked so that the search for
\* the default difficulty ends within a few counters
UpstreamNonces ==
    <<<<"9", "7", "6", "0", "8", "c", "2", "b", "e", "9", "c", "e", "d", "3", "2", "e", "e", "a", "d", "f", "c", "a", "6", "d", "f", "f", "e", "b", "7", "4", "2", "8">>, <<"1", "c", "f", "e", "5", "e", "3", "2", "2", "5", "c", "0", "5", "9", "1", "7", "5", "c", "a", "8", "5", "6", "e", "2", "9", "4", "7", "d", "a", "a", "b", "b">>,
      <<"e", "6", "3", "f", "b", "0", "4", "b", "6", "6", "1", "2", "4", "f", "d", "9", "3", "9", "7", "8", "d", "a", "7", "f", "0", "c", "d", "5", "9", "1", "5", "4">>>>

ScriptPage(text) == Page(<<>>, <<Element("script", {}, <<TextNode(text)>>)>>, <<>>)

\* what the upstream may answer to the initial request of connection n: a
\* challenge page with a nonce of its own (without a difficulty for odd n,
\* with one for even n), the same nonce assigned without blanks around the
\* `=`, or a page without a challenge
InitialAnswers(n) ==
    LET nonce == UpstreamNonces[((n - 1) % Len(UpstreamNonces)) + 1]
    IN  {[nonce |-> Ptr(nonce),
          doc |-> IF n % 2 = 1
                  THEN ScriptPage(<<"w", "i", "n", "d", "o", "w", ".", "x", "1", " ", "=", " ", "'">> \o nonce \o <<"'", ";">>)
                  ELSE ScriptPage(<<"w", "i", "n", "d", "o", "w", ".", "x", "1", " ", "=", " ", "\"">> \o nonce \o <<"\"", ";", " ", "w", "i", "n", "d", "o", "w", ".", "d", "i", "f", "f", "i", "c", "u", "l", "t", "y", " ", "=", " ", "\"">>
                                  \o calculateHashStart(PowInput(nonce, 2), 1) \o <<"\"", ";">>)],
         [nonce |-> Ptr(nonce), doc |-> ScriptPage(<<"w", "i", "n", "d", "o", "w", ".", "x", "1", "=", "'">> \o nonce \o <<"'", ";">>)],
         [nonce |-> NilPtr, doc |-> ScriptPage(<<"w", "i", "n", "d", "o", "w", ".", "r", "e", "a", "d", "y", " ", "=", " ", "1", ";">>)]}

\* the same answers, computed once
UpstreamAnswers == [n \in Requests |-> InitialAnswers(n)]

\* the values constants.ManualX1Value and constants.ManualDiffValue are
\* started with
ManualSettings ==
    {[x1 |-> <<>>, difficulty |-> <<>>],
     [x1 |-> UpstreamNonces[3], difficulty |-> <<>>],
     [x1 |-> ShortNonce, difficulty |-> <<>>],
     [x1 |-> ShortNonce, difficulty |-> <<"5">>]}

\* the length of the default difficulty
DefaultDifficultyLen == 3

\* one character less than the code takes
ShorterDefault(x1) == SubSeq(x1, 1, DefaultDifficultyLen - 1)

\* constants.ManualX1Value[:3] and x1Value[:3]
DefaultOf(x1) == SubSeq(x1, 1, DefaultDifficultyLen)

GetInitialPage(r) ==
    /\ entry = "handleIPQuery"
    /\ pc = "idle"
    /\ reqs[r].pc = "fetch"
    /\ \E answer \in {NilPtr} \cup {Ptr(a) : a \in UpstreamAnswers[r]} :
        LET jar == globals.httpClient
            manual == globals.ManualX1Value
            found == InitialValues(Deref(answer).doc)
            fetched == [reqs[r] EXCEPT !.doc = Deref(answer).doc]
            proceed(x1, difficulty) ==
                [StepDone(fetched, "initial", TRUE) EXCEPT
                    !.issued = Deref(answer).nonce, !.x1 = x1,
                    !.difficulty = difficulty, !.pc = "generate"]
        IN  IF answer = NilPtr
            THEN /\ reqs' = [reqs EXCEPT ![r] =
                        Fail(reqs[r], "initial", Ptr(<<"Step 1", "RequestFailed">>))]
                 /\ UNCHANGED jars
            ELSE /\ jars' = [jars EXCEPT ![jar].session = Deref(answer).nonce]
                 /\ reqs' = [reqs EXCEPT ![r] =
                        IF manual # <<>>
                        THEN IF globals.ManualDiffValue # <<>>
                             THEN proceed(manual, globals.ManualDiffValue)
                             ELSE IF Len(manual) >= DefaultDifficultyLen
                             THEN proceed(manual, DefaultOf(manual))
                             ELSE [fetched EXCEPT !.pc = "panicked"]
                        ELSE IF found.x1 = <<>>
                        THEN Fail(fetched, "initial", Ptr(<<"Step 1", "NoNonce">>))
                        ELSE IF found.difficulty # <<>>
                        THEN proceed(found.x1, found.difficulty)
                        ELSE IF Len(found.x1) >= DefaultDifficultyLen
                        THEN proceed(found.x1, DefaultOf(found.x1))
                        ELSE Fail(fetched, "initial", Ptr(<<"Step 1", "NoDifficulty">>))]
    /\ UNCHANGED <<globals, entry, pc, solverData, regexVars, parserVars>>

\* the loop of calculatePow
RECURSIVE PowSearch(_, _, _)
PowSearch(x1, difficulty, c) ==
    IF PowMatch(calculateHashStart(PowInput(x1, c), Len(difficulty)), difficulty)
    THEN [value |-> c, err |-> NilPtr]
    ELSE IF PowExceeded(c + 1) THEN [value |-> 0, err |-> Ptr("NotFound")]
    ELSE PowSearch(x1, difficulty, c + 1)

\* the return of GenerateKey once js1key and the result of calculatePow are
\* known
KeysOrError(js1keyValue, pow) ==
    IF pow.err # NilPtr THEN [keys |-> NilPtr, err |-> pow.err]
    ELSE [keys |-> Ptr([Js1key |-> Decimal(js1keyValue), Pow |-> Decimal(pow.value)]),
          err |-> NilPtr]

\* calculateJs1Key(x1, constants.BaseURL, false) for the upstream's
\* nonces, computed once
UpstreamJs1keys ==
    [x1 \in {UpstreamNonces[i] : i \in DOMAIN UpstreamNonces} |->
        calculateJs1Key(x1, BaseURL, Animated)]

\* the same value for any nonce
Js1keyOf(x1) ==
    IF x1 \in DOMAIN UpstreamJs1keys THEN UpstreamJs1keys[x1]
    ELSE calculateJs1Key(x1, BaseURL, Animated)

\* what GenerateKey returns
GenerateKey(x1, difficulty) ==
    IF ~NonceShapeOK(x1) THEN [keys |-> NilPtr, err |-> Ptr("InvalidInput")]
    ELSE KeysOrError(Js1keyOf(x1), PowSearch(x1, difficulty, InitialCounter))

\* the nonce and difficulty pairs GetInitialPage can return: those of the
\* manual settings and those found in the upstream's answers
Challenges ==
    {<<v.x1, IF v.difficulty # <<>> THEN v.difficulty ELSE DefaultOf(v.x1)>> :
        v \in {w \in ManualSettings \cup
                       {InitialValues(a.doc) : a \in UNION {UpstreamAnswers[n] : n \in Requests}} :
                  /\ w.x1 # <<>>
                  /\ w.difficulty # <<>> \/ Len(w.x1) >= DefaultDifficultyLen}}

\* GenerateKey for these pairs, computed once
GeneratedKeys == [c \in Challenges |-> GenerateKey(c[1], c[2])]

\* the same value for any pair
GenerateKeyOf(x1, difficulty) ==
    IF <<x1, difficulty>> \in Challenges THEN GeneratedKeys[<<x1, difficulty>>]
    ELSE GenerateKey(x1, difficulty)

\* `key, err := parser.GenerateKey(...)` and the test of err
KeyReturned(req, key) ==
    IF IsError(key.err)
    THEN Answer(StepDone(req, "generate", key.err = NilPtr), 500, NilPtr,
                Ptr(<<"Step 2", Deref(key.err)>>))
    ELSE [StepDone(req, "generate", key.err = NilPtr) EXCEPT
            !.keys = key.keys, !.pc = "url"]

CallGenerateKey(r) ==
    /\ entry = "handleIPQuery"
    /\ pc = "idle"
    /\ reqs[r].pc = "generate"
    /\ \E key \in {GenerateKeyOf(reqs[r].x1, reqs[r].difficulty)} :
            reqs' = [reqs EXCEPT ![r] = KeyReturned(reqs[r], key)]
    /\ UNCHANGED <<globals, jars, entry, pc, solverData, regexVars, parserVars>>

\* reqURL in GetFinalPage
FinalURL(queryIP) ==
    IF queryIP # <<>> THEN BaseURL \o <<"/", "i", "p", "/">> \o queryIP ELSE BaseURL

GetFinalPageURL(r) ==
    /\ entry = "handleIPQuery"
    /\ pc = "idle"
    /\ reqs[r].pc = "url"
    /\ reqs' = [reqs EXCEPT ![r].url = FinalURL(globals.QueryIP), ![r].pc = "cookies"]
    /\ UNCHANGED <<globals, jars, entry, pc, solverData, regexVars, parserVars>>

\* httpClient.Jar.SetCookies(u, js1key and pow)
GetFinalPageSetCookies(r) ==
    /\ entry = "handleIPQuery"
    /\ pc = "idle"
    /\ reqs[r].pc = "cookies"
    /\ jars' = [jars EXCEPT ![globals.httpClient].cookies = reqs[r].keys]
    /\ reqs' = [reqs EXCEPT ![r].pc = "send"]
    /\ UNCHANGED <<globals, entry, pc, solverData, regexVars, parserVars>>

\* the address the upstream reports for the caller itself
OwnAddress == <<"5", ".", "5", ".", "5", ".", "5">>

\* the documents the upstream may answer the final request with: the page
\* of the address in the URL, or an error page
FinalAnswers(url) ==
    LET address == IF url = BaseURL THEN OwnAddress ELSE Drop(url, Len(BaseURL) + 4)
    IN  {Page(<<Element("title", {}, <<TextNode(address \o <<" ", "-", " ", "P", "i", "n", "g", "0", ".", "c", "c">>)>>)>>,
              <<>>, <<>>),
         Page(<<>>, <<>>, BodyErrorMessage)}

\* httpClient.Do(req) of GetFinalPage: the request leaves with the jar of
\* the client that is current now.  With an answer GetFinalPage returns and
\* parser.ParseIPInfo(finalHtml) is entered; the call works on its own copy
\* of the page and shares nothing with the other requests, so its steps are
\* not interleaved with theirs.
GetFinalPageDo(r) ==
    /\ entry = "handleIPQuery"
    /\ pc = "idle"
    /\ reqs[r].pc = "send"
    /\ \E answer \in {NilPtr} \cup {Ptr(d) : d \in FinalAnswers(reqs[r].url)} :
        LET jar == globals.httpClient
            sent == [reqs[r] EXCEPT
                        !.sent = Ptr([jar |-> jar, session |-> jars[jar].session,
                                      cookies |-> jars[jar].cookies])]
        IN  IF answer = NilPtr
            THEN /\ reqs' = [reqs EXCEPT ![r] =
                        Fail(sent, "final", Ptr(<<"Step 2", "RequestFailed">>))]
                 /\ UNCHANGED <<entry, pc, page>>
            ELSE /\ reqs' = [reqs EXCEPT ![r] =
                        [StepDone(sent, "final", TRUE) EXCEPT !.pc = "extract"]]
                 /\ entry' = "ParseIPInfo"
                 /\ pc' = "start"
                 /\ page' = Deref(answer)
    /\ UNCHANGED <<globals, jars, solverData, regexVars, document, title, scriptValues,
                   ipInfo, result, parseErr, jsonText, validateErr>>

\* ParseIPInfo has returned: ProcessIPInfo returns and the handler answers
ProcessIPInfoReturn(r) ==
    /\ entry = "ParseIPInfo"
    /\ pc = "done"
    /\ reqs[r].pc = "extract"
    /\ LET returned == StepDone(reqs[r], "extract", parseErr = NilPtr)
       IN  IF IsError(parseErr)
           THEN /\ reqs' = [reqs EXCEPT ![r] =
                        Answer(returned, 500, NilPtr, Ptr(<<"Step 3", parseErr[1]>>))]
                /\ UNCHANGED globals
           ELSE /\ globals' = [globals EXCEPT !.QueryIP = <<>>, !.ManualX1Value = <<>>]
                /\ reqs' = [reqs EXCEPT ![r] =
                        Answer(returned, 200, Ptr(EnsurePrincess(Deref(result))), NilPtr)]
    /\ entry' = "handleIPQuery"
    /\ pc' = "idle"
    /\ page' = <<>>
    /\ document' = <<>>
    /\ title' = <<>>
    /\ scriptValues' = <<>>
    /\ ipInfo' = NilPtr
    /\ result' = NilPtr
    /\ parseErr' = NilPtr
    /\ UNCHANGED <<jars, solverData, regexVars, jsonText, validateErr>>

ServerInit ==
    /\ entry = "handleIPQuery"
    /\ pc = "idle"
    /\ SolverIdle
    /\ page = <<>>
    /\ document = <<>>
    /\ title = <<>>
    /\ scriptValues = <<>>
    /\ ipInfo = NilPtr
    /\ result = NilPtr
    /\ parseErr = NilPtr
    /\ jsonText = <<>>
    /\ validateErr = NilPtr
    /\ \E key \in {<<>>, SampleKey}, manual \in ManualSettings :
            /\ key = <<>> \/ manual.x1 = <<>>
            /\ globals = [APIKey |-> key, ManualX1Value |-> manual.x1,
                          ManualDiffValue |-> manual.difficulty, QueryIP |-> <<>>,
                          httpClient |-> 1]
    /\ jars = <<NewJar>>
    /\ reqs = [r \in Requests |-> NewRequest]
    /\ RegexUnused

ServerNext ==
    \/ \E r \in DOMAIN reqs : handleIPQuery(r)
    \/ \E r \in DOMAIN reqs : ProcessIPInfo(r)
    \/ \E r \in DOMAIN reqs : resetHTTPClient(r)
    \/ \E r \in DOMAIN reqs : GetInitialPage(r)
    \/ \E r \in DOMAIN reqs : CallGenerateKey(r)
    \/ \E r \in DOMAIN reqs : GetFinalPageURL(r)
    \/ \E r \in DOMAIN reqs : GetFinalPageSetCookies(r)
    \/ \E r \in DOMAIN reqs : GetFinalPageDo(r)
    \/ \E r \in DOMAIN reqs : ProcessIPInfoReturn(r)
    \/ ParseCheckContent
    \/ ParseCheckTitle
    \/ ParseSetIP
    \/ ParseExtractFields
    \/ ParseFinish

ServerSpec == ServerInit /\ [][ServerNext]_vars

\* the handlers are goroutines of a running server: a step that can be
\* taken is taken eventually
FairServerSpec == ServerInit /\ [][ServerNext]_vars /\ WF_vars(ServerNext)

----------------------------------------------------------------------------
(* getOrCompileRegex (core.go): goroutines calling it concurrently, one    *)
(* action per statement                                                     *)

Goroutines == {1, 2, 3}

\* the calls each goroutine makes
MaxCalls == 1

\* patterns of extractTextBetweenTags
Patterns == {<<"<", "[", "^", ">", "]", "*", ">">>, <<"\\", "s", "+">>}

\* sync.RWMutex: the goroutines holding the read lock and the one holding
\* the exclusive lock
NewRWMutex == [readers |-> {}, writer |-> NilPtr]

\* RLock blocks while a writer holds the lock
CanRLock(m) == m.writer = NilPtr

\* an exclusive lock that does not wait for the readers
CanLockBesideReaders(m) == m.writer = NilPtr

\* Lock blocks while a writer or any reader holds the lock
CanLock(m) == m.writer = NilPtr /\ m.readers = {}

NewRoutine == [pc |-> "idle", pattern |-> <<>>, re |-> NilPtr, exists |-> FALSE,
               calls |-> 0, returned |-> NilPtr]

At(g, label) == routines[g].pc = label

\* func getOrCompileRegex(pattern string)
getOrCompileRegex(g) ==
    /\ At(g, "idle")
    /\ routines[g].calls < MaxCalls
    /\ \E pattern \in Patterns :
            routines' = [routines EXCEPT ![g] =
                [pc |-> "RLock", pattern |-> pattern, re |-> NilPtr, exists |-> FALSE,
                 calls |-> @.calls + 1, returned |-> NilPtr]]
    /\ UNCHANGED <<extractRegexCache, regexCacheMutex, compiled, inserted>>

\* regexCacheMutex.RLock()
RLock(g) ==
    /\ At(g, "RLock")
    /\ CanRLock(regexCacheMutex)
    /\ regexCacheMutex' = [regexCacheMutex EXCEPT !.readers = @ \cup {g}]
    /\ routines' = [routines EXCEPT ![g].pc = "read"]
    /\ UNCHANGED <<extractRegexCache, compiled, inserted>>

\* re, exists := extractRegexCache[pattern]
ReadCache(g) ==
    /\ At(g, "read")
    /\ LET pattern == routines[g].pattern
           exists == pattern \in DOMAIN extractRegexCache
       IN  routines' = [routines EXCEPT
                ![g].pc = "RUnlock",
                ![g].exists = exists,
                ![g].re = IF exists THEN Ptr(extractRegexCache[pattern]) ELSE NilPtr]
    /\ UNCHANGED <<extractRegexCache, regexCacheMutex, compiled, inserted>>

\* regexCacheMutex.RUnlock(); if exists { return re }
RUnlock(g) ==
    /\ At(g, "RUnlock")
    /\ regexCacheMutex' = [regexCacheMutex EXCEPT !.readers = @ \ {g}]
    /\ routines' = [routines EXCEPT
            ![g].pc = IF routines[g].exists THEN "idle" ELSE "compile",
            ![g].returned = IF routines[g].exists THEN routines[g].re ELSE NilPtr]
    /\ UNCHANGED <<extractRegexCache, compiled, inserted>>

\* re = regexp.MustCompile(pattern): a new object each time
MustCompile(g) ==
    /\ At(g, "compile")
    /\ LET pattern == routines[g].pattern
       IN  /\ compiled' = [compiled EXCEPT ![pattern] = @ + 1]
           /\ routines' = [routines EXCEPT
                    ![g].pc = "Lock",
                    ![g].re = Ptr([pattern |-> pattern, object |-> compiled[pattern] + 1])]
    /\ UNCHANGED <<extractRegexCache, regexCacheMutex, inserted>>

\* regexCacheMutex.Lock()
Lock(g) ==
    /\ At(g, "Lock")
    /\ CanLock(regexCacheMutex)
    /\ regexCacheMutex' = [regexCacheMutex EXCEPT !.writer = Ptr(g)]
    /\ routines' = [routines EXCEPT ![g].pc = "insert"]
    /\ UNCHANGED <<extractRegexCache, compiled, inserted>>

\* extractRegexCache[pattern] = re
InsertCache(g) ==
    /\ At(g, "insert")
    /\ LET pattern == routines[g].pattern
       IN  /\ extractRegexCache' =
                [p \in DOMAIN extractRegexCache \cup {pattern} |->
                    IF p = pattern THEN Deref(routines[g].re) ELSE extractRegexCache[p]]
           /\ inserted' = [inserted EXCEPT ![pattern] = @ + 1]
    /\ routines' = [routines EXCEPT ![g].pc = "Unlock"]
    /\ UNCHANGED <<regexCacheMutex, compiled>>

\* regexCacheMutex.Unlock(); return re
Unlock(g) ==
    /\ At(g, "Unlock")
    /\ regexCacheMutex' = [regexCacheMutex EXCEPT !.writer = NilPtr]
    /\ routines' = [routines EXCEPT ![g].pc = "idle", ![g].returned = routines[g].re]
    /\ UNCHANGED <<extractRegexCache, compiled, inserted>>

RegexInit ==
    /\ entry = "getOrCompileRegex"
    /\ pc = "idle"
    /\ SolverIdle
    /\ page = <<>>
    /\ document = <<>>
    /\ title = <<>>
    /\ scriptValues = <<>>
    /\ ipInfo = NilPtr
    /\ result = NilPtr
    /\ parseErr = NilPtr
    /\ jsonText = <<>>
    /\ validateErr = NilPtr
    /\ globals = <<>>
    /\ jars = <<>>
    /\ reqs = <<>>
    /\ extractRegexCache = <<>>
    /\ regexCacheMutex = NewRWMutex
    /\ routines = [g \in Goroutines |-> NewRoutine]
    /\ compiled = [p \in Patterns |-> 0]
    /\ inserted = [p \in Patterns |-> 0]

RegexNext ==
    /\ \E g \in Goroutines :
            \/ getOrCompileRegex(g)
            \/ RLock(g)
            \/ ReadCache(g)
            \/ RUnlock(g)
            \/ MustCompile(g)
            \/ Lock(g)
            \/ InsertCache(g)
            \/ Unlock(g)
    /\ UNCHANGED <<solverVars, parserVars, serverVars>>

RegexSpec == RegexInit /\ [][RegexNext]_vars

----------------------------------------------------------------------------
(***************************************************************************)
(* Properties of the extraction pipeline                                   *)
(***************************************************************************)
ParseDone == entry = "ParseIPInfo" /\ pc = "done"

\* the text of the page's title elements
PageTitle == SelText(Find(page, <<Sel("title", {})>>))

\* the page text has the marker phrase, or the title has a marker
ErrorPageDoc ==
    \/ Contains(htmlContent, ErrorMarker)
    \/ Contains(PageTitle, ErrorMarker)
    \/ Contains(PageTitle, ErrorWord)

Failed(kind) == result = NilPtr /\ parseErr # NilPtr /\ parseErr[1] = kind

\* C7: on a page whose text contains the marker phrase, or whose title
\* contains a marker, ParseIPInfo never creates a record or reads a script
\* variable, and it returns nil with the error-page error.
C7_ErrorPageRejected ==
    (entry = "ParseIPInfo" /\ ErrorPageDoc) =>
        /\ ipInfo = NilPtr
        /\ scriptValues = <<>>
        /\ pc = "done" => Failed("ErrorPage")

\* the marker phrase is in the body text only, and the page has an address
C7_Witness ==
    /\ ParseDone
    /\ Contains(htmlContent, ErrorMarker)
    /\ ~Contains(PageTitle, ErrorMarker)
    /\ PageTitle # <<>>
    /\ Failed("ErrorPage")

\* no script block of the page assigns a non-empty window.ip
NoAddressVariable ==
    LET scripts == Find(page, <<Sel("script", {})>>)
    IN  \A i \in DOMAIN scripts :
            extractScriptVar(Text(scripts[i].node), WindowIP) \in {NilPtr, Ptr(<<>>)}

\* the page has no title, or nothing but blanks before the title's first "-"
NoAddressElement ==
    LET dash == Index(PageTitle, <<"-">>)
        last == IF dash = 0 THEN Len(PageTitle) ELSE dash - 1
    IN  \A i \in 1..last : PageTitle[i] \in UnicodeSpace

C9_AddressNonEmpty ==
    ParseDone =>
        \/ parseErr = NilPtr /\ result # NilPtr /\ Deref(result).IP # <<>>
        \/ parseErr # NilPtr /\ result = NilPtr

\* one call returned a record
C9_Witness ==
    /\ ParseDone
    /\ parseErr = NilPtr
    /\ result # NilPtr
    /\ Deref(result).IP = <<"8", ".", "8", ".", "8", ".", "8">>

\* the embedded variables of the page
PageValues == extractScriptVariables(page)

Returned == ParseDone /\ result # NilPtr

\* the structural values of the page
TitleValue == TrimSpace(Split(PageTitle, <<"-">>)[1])
LocationValue == extractIPLocation(page, <<>>)
LongitudeValue == extractNamedLine(page, LongitudeName, <<>>)
LatitudeValue == extractNamedLine(page, LatitudeName, <<>>)

FieldIs(field, name, structural) ==
    field = IF HasValue(PageValues, name) THEN Deref(PageValues[name]) ELSE structural

\* C10 as claimed: each of the four fields is the variable's value as
\* written when there is a non-empty one, and the structural value otherwise.
C10_VariableVerbatim ==
    Returned =>
        /\ FieldIs(Deref(result).IP, WindowIP, TitleValue)
        /\ FieldIs(Deref(result).IPLocation, WindowLoc, LocationValue)
        /\ FieldIs(Deref(result).Longitude, WindowLongitude, LongitudeValue)
        /\ FieldIs(Deref(result).Latitude, WindowLatitude, LatitudeValue)

\* C10, amended: the same, except that the location is the variable's value
\* with its HTML entities decoded.
C10_VariablePreferred ==
    Returned =>
        /\ FieldIs(Deref(result).IP, WindowIP, TitleValue)
        /\ Deref(result).IPLocation =
              IF HasValue(PageValues, WindowLoc)
              THEN decodeHTMLEntities(Deref(PageValues[WindowLoc]))
              ELSE LocationValue
        /\ FieldIs(Deref(result).Longitude, WindowLongitude, LongitudeValue)
        /\ FieldIs(Deref(result).Latitude, WindowLatitude, LatitudeValue)

\* the variables and the DOM disagree on all four fields
C10_Witness ==
    /\ Returned
    /\ \A name \in {WindowIP, WindowLoc, WindowLongitude, WindowLatitude} :
            HasValue(PageValues, name)
    /\ Deref(result).IP # TitleValue /\ TitleValue # <<>>
    /\ Deref(result).IPLocation # LocationValue /\ LocationValue # <<>>
    /\ Deref(result).Longitude # LongitudeValue /\ LongitudeValue # <<>>
    /\ Deref(result).Latitude # LatitudeValue /\ LatitudeValue # <<>>

\* the trimmed, non-empty texts of the .label elements below the containers cs
TagTexts(cs) == LabelTexts(Find(page, cs \o Label))

IPTypeContent == <<Sel("", {"line", "line-iptype"}), Sel("", {"content"})>>

\* C11: each of IPType, ASNType and OrgType is the texts of all the tag
\* elements of its field joined by "; " in document order, and empty when
\* the page has no tag element for the field.
C11_TagsJoined ==
    Returned =>
        /\ Deref(result).IPType = Join(TagTexts(IPTypeContent), TypeSeparator)
        /\ Deref(result).ASNType = Join(TagTexts(AsnNameContent), TypeSeparator)
        /\ Deref(result).OrgType = Join(TagTexts(OrgNameContent), TypeSeparator)

HasSuffix(s, suffix) ==
    Len(s) >= Len(suffix) /\ SubSeq(s, Len(s) - Len(suffix) + 1, Len(s)) = suffix

\* the number of places where sub occurs in s
Occurrences(s, sub) == Cardinality({i \in DOMAIN s : HasPrefixAt(s, sub, i)})

Normalised(s) ==
    /\ s = TrimSpace(s)
    /\ \A i \in 1..(Len(s) - 1) : ~(s[i] \in WhiteSpace /\ s[i + 1] \in WhiteSpace)
    /\ s = StripTemplates(s)

\* C17: no string field of a returned record has white space at either end,
\* a run of two or more white-space characters inside, or a {{...}} token.
C17_FieldsNormalised ==
    Returned =>
        \A i \in DOMAIN Fields(Deref(result)) : Normalised(Fields(Deref(result))[i][2])

\* the texts of the script blocks of the page, in document order
ScriptContents ==
    LET sel == Find(page, <<Sel("script", {})>>)
    IN  [i \in DOMAIN sel |-> Text(sel[i].node)]

\* the script blocks that hold an assignment of the variable
Assigning(name) ==
    {i \in DOMAIN ScriptContents : extractScriptVar(ScriptContents[i], name) # NilPtr}

\* C19: when several script blocks assign the same variable, the recorded
\* value is the one of the first assigning block in document order.
C19_FirstAssignment ==
    scriptValues # <<>> =>
        \A name \in DOMAIN scriptValues :
            Cardinality(Assigning(name)) >= 2 =>
                scriptValues[name] =
                    extractScriptVar(
                        ScriptContents[CHOOSE i \in Assigning(name) :
                                          \A j \in Assigning(name) : i <= j],
                        name)

\* C20: the ASN owner and the organization name of a returned record hold
\* no em dash, hence nothing that followed one in the source element.
C20_OwnerCutAtDash ==
    Returned =>
        /\ ~Contains(Deref(result).ASNOwner, EmDash)
        /\ ~Contains(Deref(result).Organization, EmDash)

(***************************************************************************)
(* Properties of the API server                                            *)
(***************************************************************************)
\* C13: the js1key and pow cookies that leave with a query's final request
\* are the ones computed from the nonce of that query's own initial
\* request, and the jar they leave in is the one whose session received
\* that nonce.
C13_OwnCredentials ==
    \A r \in DOMAIN reqs :
        (/\ reqs[r].sent # NilPtr
         /\ reqs[r].issued # NilPtr
         /\ reqs[r].x1 = Deref(reqs[r].issued))
            => /\ Deref(reqs[r].sent).cookies = reqs[r].keys
               /\ Deref(reqs[r].sent).session = reqs[r].issued

\* C14: the URL of a query's final request is built from the ip parameter
\* of the same request.
C14_OwnAddress ==
    \A r \in DOMAIN reqs :
        reqs[r].url # <<>> => reqs[r].url = FinalURL(reqs[r].ip)

\* C15: with an API key configured, a GET or POST request whose
\* Authorization header is not "Bearer " followed by the key is answered
\* 401 and ProcessIPInfo never runs for it.
C15_KeyRequired ==
    \A r \in DOMAIN reqs :
        (/\ globals.APIKey # <<>>
         /\ reqs[r].pc # "arrived"
         /\ reqs[r].method \in {"GET", "POST"}
         /\ reqs[r].auth # <<"B", "e", "a", "r", "e", "r", " ">> \o globals.APIKey)
            => /\ reqs[r].pc = "done"
               /\ reqs[r].status = 401
               /\ reqs[r].steps = <<>>
               /\ reqs[r].issued = NilPtr
               /\ reqs[r].sent = NilPtr
               /\ reqs[r].info = NilPtr

\* a header with the right scheme and a wrong key was refused while a
\* request with the key was served
C15_Witness ==
    /\ reqs # <<>>
    /\ globals.APIKey = SampleKey
    /\ \E r \in DOMAIN reqs :
            reqs[r].auth = <<"B", "e", "a", "r", "e", "r", " ", "s", "3", "x">> /\ reqs[r].method = "GET" /\ reqs[r].status = 401
    /\ \E r \in DOMAIN reqs : reqs[r].status = 200 /\ reqs[r].info # NilPtr

\* the steps of ProcessIPInfo and the prefix its error carries for each
StepOrder == <<"initial", "generate", "final", "extract">>

StepLabel == <<"Step 1", "Step 2", "Step 2", "Step 3">>

\* C16: the steps of one ProcessIPInfo call run at most once each, in the
\* order initial fetch, credential generation, final fetch, extraction; no
\* step runs after a failed one, a failure is returned with a nil record,
\* and a record is returned only after all four steps succeeded.
C16_StepsInOrder ==
    \A r \in DOMAIN reqs :
        LET steps == reqs[r].steps
        IN  /\ Len(steps) <= Len(StepOrder)
            /\ \A i \in DOMAIN steps : steps[i].step = StepOrder[i]
            /\ \A i \in DOMAIN steps :
                    ~steps[i].ok =>
                        /\ i = Len(steps)
                        /\ reqs[r].pc = "done"
                        /\ reqs[r].status = 500
                        /\ reqs[r].info = NilPtr
                        /\ reqs[r].error # NilPtr
                        /\ Deref(reqs[r].error)[1] = StepLabel[i]
            /\ reqs[r].info # NilPtr =>
                    /\ Len(steps) = Len(StepOrder)
                    /\ \A i \in DOMAIN steps : steps[i].ok

\* one call failed in its last step and another returned a record
C16_Witness ==
    /\ \E r \in DOMAIN reqs :
            /\ Len(reqs[r].steps) = 4
            /\ ~reqs[r].steps[4].ok
            /\ reqs[r].status = 500
    /\ \E r \in DOMAIN reqs :
            /\ Len(reqs[r].steps) = 4
            /\ reqs[r].steps[4].ok
            /\ reqs[r].info # NilPtr


\* C21: calculatePow compares case-insensitively: a call with a prefix that
\* has upper-case letters returns what the call with the same prefix in
\* lower case returns, the same counter or NotFound in both.
C21_CaseInsensitive ==
    (entry = "calculatePow" /\ PowReturned
        /\ difficultyValue # ToLower(difficultyValue))
        => LET lower == PowSearch(x1Value, ToLower(difficultyValue), InitialCounter)
           IN  IF lower.err = NilPtr
               THEN powErr = Nil /\ powValue = lower.value
               ELSE powErr = "NotFound"

\* C22: the conditionals of calculateJs1Key depend only on the animated
\* flag and the lengths of the nonce and of locationHref: a call performs
\* the same sequence of constant add/subtract/xor operations as a call with
\* any other nonce of the same length, the same flag and the same
\* locationHref.
C22_SameOperations ==
    (entry = "calculateJs1Key" /\ pc = "done")
        => \A other \in Nonces32 :
                Len(other) = Len(x1Value)
                    => Operations(other, href, anim) = Operations(x1Value, href, anim)

\* a call with the flag set and a long locationHref, whose result differs
\* from that of another nonce of the same length
C22_Witness ==
    /\ entry = "calculateJs1Key"
    /\ pc = "done"
    /\ anim
    /\ Len(href) > Len(BaseURL)
    /\ x1Value = GoldenNonce
    /\ \E other \in Nonces32 :
            /\ Len(other) = Len(x1Value)
            /\ calculateJs1Key(other, href, anim) # js1key
    /\ Len(Operations(x1Value, href, anim)) > NonceLen

\* C23: while a manually supplied nonce that is not exactly 32 hexadecimal
\* characters is configured, no query aborts abnormally, no query gets or
\* sends credentials, and a query that got past the initial fetch has ended
\* with the InvalidInput error of the credential step.
C23_ManualNonceRejected ==
    \A r \in DOMAIN reqs :
        (globals.ManualX1Value # <<>> /\ ~NonceShapeHex(globals.ManualX1Value))
            => /\ reqs[r].pc # "panicked"
               /\ reqs[r].keys = NilPtr
               /\ reqs[r].sent = NilPtr
               /\ (\E i \in DOMAIN reqs[r].steps :
                        reqs[r].steps[i].step = "initial" /\ reqs[r].steps[i].ok)
                    => \/ reqs[r].pc = "generate"
                       \/ /\ reqs[r].pc = "done"
                          /\ reqs[r].error = Ptr(<<"Step 2", "InvalidInput">>)

\* the initial fetch of request r has returned a nonce and a difficulty
GotChallenge(r) ==
    \E i \in DOMAIN reqs[r].steps :
        reqs[r].steps[i].step = "initial" /\ reqs[r].steps[i].ok

\* the nonces that request r may be issued in a document that assigns
\* window.difficulty
IssuedWithDifficulty ==
    [r \in Requests |->
        {a.nonce : a \in {b \in InitialAnswers(r) :
                            InitialValues(b.doc).difficulty # <<>>}}]

\* no difficulty was available to request r: none supplied manually and
\* none in the initial document it was answered
NoDifficultyAvailable(r) ==
    /\ globals.ManualDiffValue = <<>>
    /\ reqs[r].issued \notin IssuedWithDifficulty[r]

\* C24: whenever no difficulty is available, the difficulty handed to the
\* solver is exactly the first 3 characters of the nonce used for the query.
C24_DefaultDifficulty ==
    \A r \in DOMAIN reqs :
        (GotChallenge(r) /\ NoDifficultyAvailable(r))
            => /\ Len(reqs[r].difficulty) = 3
               /\ \A i \in 1..3 : reqs[r].difficulty[i] = reqs[r].x1[i]

\* a query solved the challenge with the default difficulty of the nonce
\* its initial document carried and was answered with a record
C24_Witness ==
    \E r \in DOMAIN reqs :
        /\ GotChallenge(r)
        /\ NoDifficultyAvailable(r)
        /\ reqs[r].keys # NilPtr
        /\ reqs[r].issued = Ptr(reqs[r].x1)
        /\ reqs[r].pc = "done"
        /\ reqs[r].status = 200

\* the positions of a request inside its ProcessIPInfo call
InProcessIPInfo == {"reset", "fetch", "generate", "url", "cookies", "send", "extract"}

\* C25: when a ProcessIPInfo call returns, with a record or with an error
\* at any step, constants.ManualX1Value and constants.QueryIP are cleared.
C25_StateCleared ==
    [][\A r \in DOMAIN reqs :
            (reqs[r].pc \in InProcessIPInfo /\ reqs'[r].pc = "done")
                => (globals'.ManualX1Value = <<>> /\ globals'.QueryIP = <<>>)]_vars

\* C26: each pattern is compiled at most once and inserted into the cache
\* at most once, whatever the interleaving of the calls.
C26_CompiledOnce ==
    \A p \in DOMAIN compiled : compiled[p] <= 1 /\ inserted[p] <= 1

\* goroutine g reads the map, writes it
Reading(g) == routines[g].pc = "read"

Writing(g) == routines[g].pc = "insert"

\* C27: the cache map is never written while another goroutine reads or
\* writes it; every read happens under the read lock, every insert under
\* the exclusive lock, and a goroutine outside a call holds no lock.
C27_LockDiscipline ==
    \A g \in DOMAIN routines :
        /\ Writing(g) => \A h \in DOMAIN routines \ {g} : ~Reading(h) /\ ~Writing(h)
        /\ Reading(g) => g \in regexCacheMutex.readers
        /\ Writing(g) => regexCacheMutex.writer = Ptr(g)
        /\ routines[g].pc = "idle" =>
                g \notin regexCacheMutex.readers /\ regexCacheMutex.writer # Ptr(g)

\* one goroutine inserts while another waits for the read lock and a third,
\* which has compiled the same pattern, waits for the exclusive lock
C27_Witness ==
    \E g, h, k \in DOMAIN routines :
        /\ Writing(g)
        /\ routines[h].pc = "RLock"
        /\ routines[k].pc = "Lock"
        /\ routines[k].pattern = routines[g].pattern

ScriptVarOver(doc, name) ==
    LET scripts == Find(doc, <<Sel("script", {})>>)
    IN  LastAssigned([i \in DOMAIN scripts |->
                        extractScriptVar(Text(scripts[i].node), name)], <<>>)

\* C29: the nonce and the difficulty GetInitialPage extracts from an
\* initial document equal the values the lookup of extractScriptVar yields
\* for window.x1 and window.difficulty over the same script blocks.
C29_SameLookup ==
    [][\A r \in DOMAIN reqs :
            (reqs[r].pc = "fetch" /\ reqs'[r].doc # <<>> /\ globals.ManualX1Value = <<>>)
                => LET x1 == ScriptVarOver(reqs'[r].doc, <<"w", "i", "n", "d", "o", "w", ".", "x", "1">>)
                       difficulty == ScriptVarOver(reqs'[r].doc, <<"w", "i", "n", "d", "o", "w", ".", "d", "i", "f", "f", "i", "c", "u", "l", "t", "y">>)
                   IN  IF x1 = <<>>
                       THEN reqs'[r].error = Ptr(<<"Step 1", "NoNonce">>)
                       ELSE /\ reqs'[r].pc = "generate"
                            /\ reqs'[r].x1 = x1
                            /\ difficulty # <<>> => reqs'[r].difficulty = difficulty]_vars

\* request r has got its one response: 200 with the record, or 500 with an
\* error message
Answered(r) ==
    /\ reqs[r].pc = "done"
    /\ \/ reqs[r].status = 200 /\ reqs[r].info # NilPtr /\ reqs[r].error = NilPtr
       \/ reqs[r].status = 500 /\ reqs[r].info = NilPtr /\ reqs[r].error # NilPtr

\* C30: every /query request that passed the method and authorization
\* checks is eventually answered, 200 with the record or 500 with an error
\* message.
C30_EventuallyAnswered ==
    \A r \in Requests : (reqs[r].pc = "process") ~> Answered(r)

====
